---- MODULE Spec2Model ----
(***************************************************************************)
(* Model of the knot_pad backend: the credential / session manager of      *)
(* src/auth.py and src/routes/auth.py over the MongoDB collections users,  *)
(* refresh_tokens and otps, and the single-item reads of the content       *)
(* routes.                                                                 *)
(*                                                                         *)
(* Time.  `now` is datetime.utcnow() in clock ticks.  Two tokens made for  *)
(* the same subject and role within one tick are the same string, as the   *)
(* JWT "exp" claim is an integer number of seconds.  The token lifetimes   *)
(* and the inactivity window are scaled down to a few ticks, keeping their *)
(* order with room for a handler between them: an access token and the     *)
(* handler that made it end within the inactivity window, and a session    *)
(* is inactive well before it expires.                                     *)
(*                                                                         *)
(* Requests.  Every handler is an asyncio task that can be suspended at    *)
(* each `await` of a database call; `tasks` is the bag of the handlers in  *)
(* flight, each with its position and its local variables.  A handler is   *)
(* short against a tick: it may straddle one tick boundary, never two.     *)
(***************************************************************************)
EXTENDS Integers, FiniteSets, Sequences, Bags, TLC

\* ------------------------------------------------------------------ bounds
MaxTime == 5          \* the clock runs from 0 to MaxTime
AccessTicks == 1      \* access_token_expire_minutes (30 min), in ticks
InactivityTicks == 2  \* timedelta(days=1) of refresh_token, in ticks
RefreshTicks == 4     \* refresh_token_expire_days (30 days), in ticks
MaxTasks == 2         \* handlers in flight at once
MaxUsers == 2         \* documents register may bring the users collection to
MaxSessions == 2      \* refresh_tokens documents ever inserted (their _id)
MaxOtps == 1          \* otps documents ever inserted (their _id)
MaxContent == 2       \* documents create_story / create_video bring a collection to
MaxReads == 1         \* single-item reads counted on one document
MaxChapters == 1      \* documents create_chapter brings the chapters collection to
MaxComments == 2      \* documents the comment routes bring the comments collection to
MaxNumbers == 2       \* chapter numbers requests ask for, and chapters when a request is taken
MaxRequests == 3      \* requests the metrics collector records
MaxThread == 3        \* comments of one story when its thread is built and deleted
MaxOwned == 1         \* stories and videos the update and delete requests address
MaxPoints == 4        \* points an author holds when a like request is taken
MaxLikes == 3         \* likes a story counts when requests in flight together are taken
OtpTicks == 1          \* timedelta(minutes=10) of send_otp, in ticks
DayTicks == 2         \* a calendar day, scaled down
Milestone == 2        \* likes per milestone point: 1000, scaled down

\* ------------------------------------------------------------------ values
None == "None"
Missing == << >>      \* the hashed_password of a document that has no such key
UserRole == {"admin", "user"}
admin_username == "admin"
admin_password == "admin123"
secret_key == "secret_key"

\* What a client may send.  "m1" is usable both as a username and as an
\* e-mail address: neither field is validated (models.py: Optional[str]).
Usernames == {"admin", "u1"}
Emails == {"m1"}
Passwords == {"admin123", "pw"}

VARIABLES
    now,             \* datetime.utcnow(), in ticks
    users,           \* db.users: set of user documents
    refresh_tokens,  \* db.refresh_tokens: set of documents
    next_id,         \* documents inserted into refresh_tokens so far (fresh _id)
    otps,            \* db.otps: set of documents
    next_otp,        \* documents inserted into otps so far (fresh _id)
    tasks,           \* bag of the handlers in flight: position and locals
    issued,          \* tokens responses handed to clients, not yet expired
    resp,            \* the last response of a handler that was suspended
                     \* (a request rejected at its first read leaves no trace)
    logged_out,      \* subjects whose last completed session request was a logout
    revoked,         \* tokens issued to a subject before a logout of it completed
    stories,         \* db.stories: set of documents
    videos,          \* db.videos: set of documents
    shots,           \* db.shots: set of documents
    points,          \* the "points" field of the users documents, by _id
    chapters,        \* db.chapters: set of documents
    comments,        \* db.comments: set of documents
    metrics_collector  \* the MetricsCollector object and the record_request call it runs

dependents == <<chapters, comments>>
content == <<stories, videos, shots, points, dependents>>
vars == <<now, users, refresh_tokens, next_id, otps, next_otp, tasks, issued, resp,
          logged_out, revoked, content, metrics_collector>>

NoResp == [op |-> "none", status |-> 0]

\* ------------------------------------------------------------- src/auth.py
\* passlib's bcrypt: hash, and verification against a stored hash.
get_password_hash(password) == <<"bcrypt", password>>
verify_password(plain_password, hashed_password) ==
    hashed_password = get_password_hash(plain_password)

\* jwt.encode: a deterministic function of the claims and the key.
jwt_encode(sub, role, exp, type) ==
    [sub |-> sub, role |-> role, exp |-> exp, type |-> type, sig |-> secret_key]

create_access_token(sub, role) == jwt_encode(sub, role, now + AccessTicks, "access")
create_refresh_token(sub, role) == jwt_encode(sub, role, now + RefreshTicks, "refresh")

\* jwt.decode: JWTError on a bad signature or an "exp" in the past.
jwt_decode_ok(token) == token.sig = secret_key /\ now <= token.exp

\* verify_token: "ok" with the token's data, or 401.
verify_token(token, token_type) ==
    IF ~jwt_decode_ok(token) THEN 401
    ELSE IF token.sub = None \/ token.type # token_type THEN 401
    ELSE IF now > token.exp THEN 401
    ELSE 200

UsersWhere(field, value) == {u \in users : u[field] = value}

\* get_current_user: the user document, or the status it raises.
\* find_one returns some matching document.
get_current_user_status(token) ==
    IF verify_token(token, "access") # 200 THEN 401
    ELSE IF ~\E r \in refresh_tokens : r.username = token.sub /\ r.expires_at > now
         THEN 401
    ELSE IF UsersWhere("username", token.sub) = {} THEN 401
    ELSE IF \E u \in UsersWhere("username", token.sub) : ~u.is_active THEN 400
    ELSE 200

get_current_user(token) ==
    IF get_current_user_status(token) = 200
    THEN UsersWhere("username", token.sub)
    ELSE {}

\* get_current_admin_user: 403 unless the stored role of the user that
\* get_current_user returned is admin.
get_current_admin_user_status(token) ==
    IF get_current_user_status(token) # 200 THEN get_current_user_status(token)
    ELSE IF \E current_user \in get_current_user(token) : current_user.role # "admin"
         THEN 403
    ELSE 200

\* get_optional_user: the user documents it may return ({} is None).
get_optional_user(token) ==
    IF ~jwt_decode_ok(token) THEN {}
    ELSE IF token.sub = None THEN {}
    ELSE {u \in UsersWhere("username", token.sub) : u.is_active}

\* ------------------------------------------------------------ shared steps
\* A handler enters the bag at its first suspension, moves on, or returns.
Start(h) == tasks' = tasks (+) SetToBag({h})
Goto(h, g) == tasks' = (tasks (-) SetToBag({h})) (+) SetToBag({g})
Return(h) == tasks' = tasks (-) SetToBag({h})
Running == BagToSet(tasks)
CanStart == BagCardinality(tasks) < MaxTasks
AllIdle == tasks = EmptyBag

\* Number of handlers in flight whose position is in pcs.
TasksAt(pcs) ==
    BagCardinality([h \in {g \in Running : g.pc \in pcs} |-> tasks[h]])

\* An HTTPException (or an unhandled error, 500) as the response.
Error(op, status, detail) == [op |-> op, status |-> status, detail |-> detail]

\* Handlers in flight that will still insert a refresh_tokens document.
SessionPcs == {"login_admin_insert", "login_delete", "login_insert",
               "verify_otp_mark", "verify_otp_find", "verify_otp_anon",
               "verify_otp_create", "verify_otp_fetch", "verify_otp_delete",
               "verify_otp_insert"}
SessionsPlanned == next_id + TasksAt(SessionPcs)

\* The tokens and the refresh_tokens document of one login or refresh, all
\* stamped with the clock of this step.
Session(username, role) ==
    [access_token |-> create_access_token(username, role),
     refresh_token |-> create_refresh_token(username, role),
     doc |-> [username |-> username,
              token |-> create_refresh_token(username, role),
              last_activity |-> now,
              expires_at |-> now + RefreshTicks]]

\* A delete_many that removes nothing.
delete_sessions_Nothing(username) == refresh_tokens

\* delete_many({"username": username}) on refresh_tokens.
delete_sessions(username) == {r \in refresh_tokens : r.username # username}

\* insert_one on refresh_tokens; the unique index on token rejects a string
\* another document holds.
token_taken(token) == \E r \in refresh_tokens : r.token = token
insert_session(doc) ==
    refresh_tokens \cup
        {[id |-> next_id + 1, username |-> doc.username, token |-> doc.token,
          last_activity |-> doc.last_activity, expires_at |-> doc.expires_at]}

\* insert_one on users; the unique index on username rejects a value another
\* document holds (a missing or null username is one more value).
username_taken(username) == UsersWhere("username", username) # {}
new_user_id == Cardinality(users) + 1

\* --------------------------------------------------- src/routes/auth.py login
\* The subject of the tokens: the username, or the e-mail when there is none.
identifier(user) == IF user.username # None THEN user.username ELSE user.email

\* login, up to its first suspension after the user lookup.
login(username, email, password) ==
    /\ CanStart
    /\ SessionsPlanned < MaxSessions
    /\ IF username = admin_username /\ password = admin_password
       THEN /\ resp' = resp
            /\ IF username_taken(admin_username)
               THEN \E admin_user \in UsersWhere("username", admin_username) :
                       Start([pc |-> "login_delete", start |-> now,
                              uid |-> admin_user.id,
                              s |-> Session(admin_username, "admin")])
               ELSE Start([pc |-> "login_admin_insert", start |-> now])
       ELSE IF username = None /\ email = None
       THEN /\ resp' = resp
            /\ tasks' = tasks
       ELSE LET found == IF username # None THEN UsersWhere("username", username)
                                           ELSE UsersWhere("email", email)
            IN  IF found = {}
                THEN /\ resp' = resp
                     /\ tasks' = tasks
                ELSE \E db_user \in found :
                       IF db_user.hashed_password = Missing
                       THEN /\ resp' = resp
                            /\ tasks' = tasks
                       ELSE IF ~verify_password(password, db_user.hashed_password)
                       THEN /\ resp' = resp
                            /\ tasks' = tasks
                       ELSE IF ~db_user.is_active
                       THEN /\ resp' = resp
                            /\ tasks' = tasks
                       ELSE /\ resp' = resp
                            /\ Start([pc |-> "login_delete", start |-> now,
                                      uid |-> db_user.id,
                                      s |-> Session(identifier(db_user), db_user.role)])
    /\ UNCHANGED <<content, now, users, refresh_tokens, next_id, issued, logged_out, revoked, otps, next_otp,
                   metrics_collector>>

\* insert_one(admin_doc), then the tokens.
login_admin_insert(h) ==
    /\ h.pc = "login_admin_insert"
    /\ IF username_taken(admin_username)
       THEN /\ resp' = Error("login", 500, "DuplicateKeyError")
            /\ Return(h)
            /\ users' = users
       ELSE /\ users' = users \cup
                   {[id |-> new_user_id,
                     username |-> admin_username,
                     email |-> None,
                     hashed_password |-> get_password_hash(admin_password),
                     anonymous_name |-> "Admin",
                     role |-> "admin",
                     is_active |-> TRUE]}
            /\ Goto(h, [pc |-> "login_delete", start |-> h.start,
                        uid |-> new_user_id,
                        s |-> Session(admin_username, "admin")])
            /\ resp' = resp
    /\ UNCHANGED <<content, now, refresh_tokens, next_id, issued, logged_out, revoked, otps, next_otp,
                   metrics_collector>>

\* delete_many({"username": username})
login_delete(h) ==
    /\ h.pc = "login_delete"
    /\ refresh_tokens' = delete_sessions(h.s.doc.username)
    /\ Goto(h, [h EXCEPT !.pc = "login_insert"])
    /\ UNCHANGED <<content, now, users, next_id, issued, resp, logged_out, revoked, otps, next_otp,
                   metrics_collector>>

\* insert_one(refresh_token_doc), then the Token response.
login_insert(h) ==
    /\ h.pc = "login_insert"
    /\ Return(h)
    /\ IF token_taken(h.s.doc.token)
       THEN /\ resp' = Error("login", 500, "DuplicateKeyError")
            /\ UNCHANGED <<refresh_tokens, next_id, issued, logged_out, revoked>>
       ELSE /\ refresh_tokens' = insert_session(h.s.doc)
            /\ next_id' = next_id + 1
            /\ issued' = issued \cup {h.s.access_token, h.s.refresh_token}
            /\ logged_out' = logged_out \ {h.s.doc.username}
            /\ revoked' = revoked
            /\ resp' = [op |-> "login", status |-> 200, uid |-> h.uid,
                        access_token |-> h.s.access_token,
                        refresh_token |-> h.s.refresh_token]
    /\ UNCHANGED <<content, now, users, otps, next_otp,
                   metrics_collector>>

\* ------------------------------------------------- src/routes/auth.py refresh
\* What a client can present: a token some response gave it, or one it signed
\* itself.
Forged == {[sub |-> "u1", role |-> "admin", exp |-> MaxTime, type |-> t, sig |-> "forged"] :
              t \in {"access", "refresh"}}
Presentable == issued \cup Forged

\* The stored documents refresh_token's find_one can return for a token.
refresh_token_docs(token) ==
    {r \in refresh_tokens : r.username = token.sub /\ r.token = token}

\* The checks of refresh_token without the inactivity timeout.
refresh_check_NoInactivity(token, refresh_token_doc) ==
    IF now > refresh_token_doc.expires_at
    THEN "Refresh token expired"
    ELSE "ok"

\* The checks of refresh_token on a token and the document read for it, in
\* the order of the code: the detail of the 401 it raises, or "ok".
refresh_check(token, refresh_token_doc) ==
    IF now - refresh_token_doc.last_activity > InactivityTicks
    THEN "Session expired due to inactivity"
    ELSE IF now > refresh_token_doc.expires_at
    THEN "Refresh token expired"
    ELSE "ok"

\* refresh_token, up to the suspension that follows its checks: the stored
\* document it read and what it goes on to do with it.
refresh_token(token) ==
    /\ CanStart
    /\ resp' = resp
    /\ IF verify_token(token, "refresh") # 200
       THEN tasks' = tasks
       ELSE IF refresh_token_docs(token) = {}
       THEN tasks' = tasks
       ELSE \E refresh_token_doc \in refresh_token_docs(token) :
               IF refresh_check(token, refresh_token_doc) # "ok"
               THEN Start([pc |-> "refresh_reject", start |-> now,
                           id |-> refresh_token_doc.id,
                           detail |-> refresh_check(token, refresh_token_doc)])
               ELSE Start([pc |-> "refresh_update", start |-> now,
                           id |-> refresh_token_doc.id, presented |-> token,
                           s |-> Session(token.sub, token.role)])
    /\ UNCHANGED <<content, now, users, refresh_tokens, next_id, issued, logged_out, revoked, otps, next_otp,
                   metrics_collector>>

\* delete_one({"_id": ...}) and the 401 of an inactive or expired session.
refresh_reject(h) ==
    /\ h.pc = "refresh_reject"
    /\ refresh_tokens' = {r \in refresh_tokens : r.id # h.id}
    /\ Return(h)
    /\ resp' = Error("refresh", 401, h.detail)
    /\ UNCHANGED <<content, now, users, next_id, issued, logged_out, revoked, otps, next_otp,
                   metrics_collector>>

\* update_one({"_id": ...}, {"$set": ...}): nothing to update when the
\* document is gone, a duplicate key when another document holds the new
\* token; then the Token response.
refresh_update(h) ==
    /\ h.pc = "refresh_update"
    /\ Return(h)
    /\ IF \E r \in refresh_tokens : r.id = h.id /\
             \E o \in refresh_tokens : o.id # r.id /\ o.token = h.s.doc.token
       THEN /\ resp' = Error("refresh", 500, "DuplicateKeyError")
            /\ UNCHANGED <<refresh_tokens, issued>>
       ELSE /\ refresh_tokens' =
                 {IF r.id = h.id
                  THEN [r EXCEPT !.token = h.s.doc.token,
                                 !.last_activity = h.s.doc.last_activity,
                                 !.expires_at = h.s.doc.expires_at]
                  ELSE r : r \in refresh_tokens}
            /\ issued' = issued \cup {h.s.access_token, h.s.refresh_token}
            /\ resp' = [op |-> "refresh", status |-> 200,
                        presented |-> h.presented,
                        access_token |-> h.s.access_token,
                        refresh_token |-> h.s.refresh_token]
    /\ UNCHANGED <<content, now, users, next_id, logged_out, revoked, otps, next_otp,
                   metrics_collector>>

\* -------------------------------------------------- src/routes/auth.py logout
\* The get_current_user dependency of logout.
logout(token) ==
    /\ CanStart
    /\ IF get_current_user_status(token) # 200
       THEN /\ resp' = resp
            /\ tasks' = tasks
       ELSE /\ \E current_user \in get_current_user(token) :
                 Start([pc |-> "logout_delete", start |-> now,
                        username |-> current_user.username])
            /\ resp' = resp
    /\ UNCHANGED <<content, now, users, refresh_tokens, next_id, issued, logged_out, revoked, otps, next_otp,
                   metrics_collector>>

\* delete_many({"username": current_user["username"]})
logout_delete(h) ==
    /\ h.pc = "logout_delete"
    /\ refresh_tokens' = delete_sessions(h.username)
    /\ logged_out' = logged_out \cup {h.username}
    /\ revoked' = revoked \cup {token \in issued : token.sub = h.username}
    /\ Return(h)
    /\ resp' = [op |-> "logout", status |-> 200, username |-> h.username]
    /\ UNCHANGED <<content, now, users, next_id, issued, otps, next_otp,
                   metrics_collector>>

\* generate_anonymous_name: adjective + noun + number, drawn at random.
GeneratedNames == {"HappyPanda1", "CleverFox2"}

\* ------------------------------------------------ src/routes/auth.py send_otp
\* random.randint(1000, 9999), as a string.
Codes == {"1000", "9999"}

\* send_otp, up to its suspension in delete_many({"email": ...}).
send_otp(email, code) ==
    /\ CanStart
    /\ next_otp + TasksAt({"send_otp_insert"}) < MaxOtps
    /\ otps' = {o \in otps : o.email # email}
    /\ Start([pc |-> "send_otp_insert", start |-> now, email |-> email, code |-> code])
    /\ UNCHANGED <<content, now, users, refresh_tokens, next_id, next_otp, issued, resp, logged_out, revoked,
                   metrics_collector>>

\* insert_one(otp_doc); the response carries the code.
send_otp_insert(h) ==
    /\ h.pc = "send_otp_insert"
    /\ otps' = otps \cup {[id |-> next_otp + 1, email |-> h.email, code |-> h.code,
                           expires_at |-> now + OtpTicks, used |-> FALSE]}
    /\ next_otp' = next_otp + 1
    /\ Return(h)
    /\ resp' = [op |-> "send_otp", status |-> 200, email |-> h.email, code |-> h.code]
    /\ UNCHANGED <<content, now, users, refresh_tokens, next_id, issued, logged_out, revoked,
                   metrics_collector>>

\* ---------------------------------------------- src/routes/auth.py verify_otp
\* verify_otp, up to the suspension that follows the lookup of the OTP.
verify_otp(email, code) ==
    /\ CanStart
    /\ SessionsPlanned < MaxSessions
    /\ resp' = resp
    /\ LET found == {o \in otps : o.email = email /\ o.code = code /\ ~o.used}
       IN  IF found = {} THEN tasks' = tasks
           ELSE \E otp \in found :
                   IF now > otp.expires_at
                   THEN Start([pc |-> "verify_otp_expired", start |-> now, id |-> otp.id])
                   ELSE Start([pc |-> "verify_otp_mark", start |-> now, id |-> otp.id,
                               email |-> email])
    /\ UNCHANGED <<content, now, users, refresh_tokens, next_id, otps, next_otp, issued, logged_out, revoked,
                   metrics_collector>>

\* delete_one({"_id": otp["_id"]}) and the 401 of an expired OTP.
verify_otp_expired(h) ==
    /\ h.pc = "verify_otp_expired"
    /\ otps' = {o \in otps : o.id # h.id}
    /\ Return(h)
    /\ resp' = Error("verify_otp", 401, "OTP expired")
    /\ UNCHANGED <<content, now, users, refresh_tokens, next_id, next_otp, issued, logged_out, revoked,
                   metrics_collector>>

\* update_one({"_id": otp["_id"]}, {"$set": {"used": True}})
verify_otp_mark(h) ==
    /\ h.pc = "verify_otp_mark"
    /\ otps' = {IF o.id = h.id THEN [o EXCEPT !.used = TRUE] ELSE o : o \in otps}
    /\ Goto(h, [pc |-> "verify_otp_find", start |-> h.start, id |-> h.id,
                email |-> h.email])
    /\ UNCHANGED <<content, now, users, refresh_tokens, next_id, next_otp, issued, resp, logged_out, revoked,
                   metrics_collector>>

\* find_one({"email": ...}): the user, and then the tokens, or a first
\* generated display name for the user to create.
verify_otp_find(h) ==
    /\ h.pc = "verify_otp_find"
    /\ IF UsersWhere("email", h.email) # {}
       THEN \E user \in UsersWhere("email", h.email) :
               Goto(h, [pc |-> "verify_otp_delete", start |-> h.start, id |-> h.id,
                        uid |-> user.id,
                        s |-> Session(identifier(user), user.role)])
       ELSE \E generated \in GeneratedNames :
               Goto(h, [pc |-> "verify_otp_anon", start |-> h.start, id |-> h.id,
                        email |-> h.email, anonymous_name |-> generated])
    /\ UNCHANGED <<content, now, users, refresh_tokens, next_id, otps, next_otp, issued, resp, logged_out, revoked,
                   metrics_collector>>

\* One turn of `while await db.users.find_one({"anonymous_name": ...})`.
verify_otp_anon(h) ==
    /\ h.pc = "verify_otp_anon"
    /\ IF UsersWhere("anonymous_name", h.anonymous_name) # {}
       THEN \E generated \in GeneratedNames :
               Goto(h, [h EXCEPT !.anonymous_name = generated])
       ELSE Goto(h, [h EXCEPT !.pc = "verify_otp_create"])
    /\ UNCHANGED <<content, now, users, refresh_tokens, next_id, otps, next_otp, issued, resp, logged_out, revoked,
                   metrics_collector>>

\* insert_one(user_doc): a user with an e-mail, no username and no password.
verify_otp_create(h) ==
    /\ h.pc = "verify_otp_create"
    /\ IF username_taken(None)
       THEN /\ resp' = Error("verify_otp", 500, "DuplicateKeyError")
            /\ Return(h)
            /\ users' = users
       ELSE /\ users' = users \cup
                   {[id |-> new_user_id, username |-> None, email |-> h.email,
                     hashed_password |-> Missing, anonymous_name |-> h.anonymous_name,
                     role |-> "user", is_active |-> TRUE]}
            /\ Goto(h, [pc |-> "verify_otp_fetch", start |-> h.start, id |-> h.id,
                        uid |-> new_user_id])
            /\ resp' = resp
    /\ UNCHANGED <<content, now, refresh_tokens, next_id, otps, next_otp, issued, logged_out, revoked,
                   metrics_collector>>

\* find_one({"_id": result.inserted_id}), then the tokens.
verify_otp_fetch(h) ==
    /\ h.pc = "verify_otp_fetch"
    /\ \E user \in {u \in users : u.id = h.uid} :
          Goto(h, [pc |-> "verify_otp_delete", start |-> h.start, id |-> h.id,
                   uid |-> user.id,
                   s |-> Session(identifier(user), user.role)])
    /\ UNCHANGED <<content, now, users, refresh_tokens, next_id, otps, next_otp, issued, resp, logged_out, revoked,
                   metrics_collector>>

\* delete_many({"username": identifier})
verify_otp_delete(h) ==
    /\ h.pc = "verify_otp_delete"
    /\ refresh_tokens' = delete_sessions(h.s.doc.username)
    /\ Goto(h, [h EXCEPT !.pc = "verify_otp_insert"])
    /\ UNCHANGED <<content, now, users, next_id, otps, next_otp, issued, resp, logged_out, revoked,
                   metrics_collector>>

\* insert_one(refresh_token_doc), then the Token response.
verify_otp_insert(h) ==
    /\ h.pc = "verify_otp_insert"
    /\ Return(h)
    /\ IF token_taken(h.s.doc.token)
       THEN /\ resp' = Error("verify_otp", 500, "DuplicateKeyError")
            /\ UNCHANGED <<refresh_tokens, next_id, issued, logged_out, revoked>>
       ELSE /\ refresh_tokens' = insert_session(h.s.doc)
            /\ next_id' = next_id + 1
            /\ issued' = issued \cup {h.s.access_token, h.s.refresh_token}
            /\ logged_out' = logged_out \ {h.s.doc.username}
            /\ revoked' = revoked
            /\ resp' = [op |-> "verify_otp", status |-> 200, uid |-> h.uid,
                        otp |-> h.id,
                        access_token |-> h.s.access_token,
                        refresh_token |-> h.s.refresh_token]
    /\ UNCHANGED <<content, now, users, otps, next_otp,
                   metrics_collector>>

\* --------------------------------------------------------------- src/auth.py
\* update_refresh_token_activity(username): update_one sets last_activity on
\* one document of the subject, whichever the collection yields first.
update_refresh_token_activity(username) ==
    IF \E r \in refresh_tokens : r.username = username
    THEN \E r \in refresh_tokens :
            /\ r.username = username
            /\ refresh_tokens' = (refresh_tokens \ {r}) \cup
                                    {[r EXCEPT !.last_activity = now]}
    ELSE refresh_tokens' = refresh_tokens

\* The activity stamp of the story routes, as get_story makes it: for the
\* user get_optional_user finds.
story_activity(token) ==
    /\ \E current_user \in get_optional_user(token) :
          update_refresh_token_activity(current_user.username)
    /\ UNCHANGED <<content, now, users, next_id, tasks, issued, resp, logged_out, revoked, otps, next_otp,
                   metrics_collector>>

\* -------------------------------------------------------------------- clock
\* The clock advances; every handler in flight started in the current tick.
\* Clients drop the tokens jwt.decode now rejects as expired.
Tick ==
    /\ now < MaxTime
    /\ \A h \in Running : h.start = now
    /\ now' = now + 1
    /\ issued' = {t \in issued : t.exp >= now + 1}
    /\ revoked' = {t \in revoked : t.exp >= now + 1}
    /\ UNCHANGED <<content, users, refresh_tokens, next_id, tasks, resp, logged_out, otps, next_otp,
                   metrics_collector>>

\* ------------------------------------------------ src/routes/auth.py register
\* Display names a client may ask for.
AnonymousNames == {"Admin", "HappyPanda1"}

\* Handlers in flight that may still insert a users document.
UserPcs == {"login_admin_insert", "register_email", "register_anon", "register_insert",
            "verify_otp_mark", "verify_otp_find", "verify_otp_anon", "verify_otp_create"}
UsersPlanned == Cardinality(users) + TasksAt(UserPcs)

\* register, up to the suspension that follows the lookup by username.
register(username, email, password, anonymous_name) ==
    /\ CanStart
    /\ UsersPlanned < MaxUsers
    /\ IF username # None /\ UsersWhere("username", username) # {}
       THEN tasks' = tasks
       ELSE Start([pc |-> "register_email", start |-> now, username |-> username,
                   email |-> email, password |-> password,
                   anonymous_name |-> anonymous_name])
    /\ UNCHANGED <<content, now, users, refresh_tokens, next_id, otps, next_otp, issued, resp, logged_out, revoked,
                   metrics_collector>>

\* The lookup by e-mail, then the display name asked for or a generated one.
register_email(h) ==
    /\ h.pc = "register_email"
    /\ IF h.email # None /\ UsersWhere("email", h.email) # {}
       THEN /\ Return(h)
            /\ resp' = [op |-> "register", status |-> 400,
                        detail |-> "Email already registered",
                        username |-> h.username, email |-> h.email]
       ELSE /\ resp' = resp
            /\ IF h.anonymous_name # None
               THEN Goto(h, [h EXCEPT !.pc = "register_anon"])
               ELSE \E generated \in GeneratedNames :
                       Goto(h, [h EXCEPT !.pc = "register_anon",
                                         !.anonymous_name = generated])
    /\ UNCHANGED <<content, now, users, refresh_tokens, next_id, otps, next_otp, issued, logged_out, revoked,
                   metrics_collector>>

\* One turn of `while await db.users.find_one({"anonymous_name": ...})`.
register_anon(h) ==
    /\ h.pc = "register_anon"
    /\ IF UsersWhere("anonymous_name", h.anonymous_name) # {}
       THEN \E generated \in GeneratedNames :
               Goto(h, [h EXCEPT !.anonymous_name = generated])
       ELSE Goto(h, [h EXCEPT !.pc = "register_insert"])
    /\ UNCHANGED <<content, now, users, refresh_tokens, next_id, otps, next_otp, issued, resp, logged_out, revoked,
                   metrics_collector>>

\* insert_one(user_doc), then the UserResponse.
register_insert(h) ==
    /\ h.pc = "register_insert"
    /\ Return(h)
    /\ IF username_taken(h.username)
       THEN /\ resp' = [op |-> "register", status |-> 500, detail |-> "DuplicateKeyError",
                        username |-> h.username, email |-> h.email]
            /\ users' = users
       ELSE /\ users' = users \cup
                   {[id |-> new_user_id, username |-> h.username, email |-> h.email,
                     hashed_password |-> get_password_hash(h.password),
                     anonymous_name |-> h.anonymous_name,
                     role |-> "user", is_active |-> TRUE]}
            /\ resp' = [op |-> "register", status |-> 201, uid |-> new_user_id]
    /\ UNCHANGED <<content, now, refresh_tokens, next_id, otps, next_otp, issued, logged_out, revoked,
                   metrics_collector>>

\* ------------------------------------------ src/routes/auth.py update_profile
\* The get_current_user dependency of update_profile.
update_profile(token, anonymous_name, email) ==
    /\ CanStart
    /\ IF get_current_user_status(token) # 200
       THEN tasks' = tasks
       ELSE \E current_user \in get_current_user(token) :
               Start([pc |-> "profile_anon", start |-> now, uid |-> current_user.id,
                      anonymous_name |-> anonymous_name, email |-> email])
    /\ UNCHANGED <<content, now, users, refresh_tokens, next_id, otps, next_otp, issued, resp, logged_out, revoked,
                   metrics_collector>>

\* `if anonymous_name:` and the lookup of another user with that name.
update_profile_anon(h) ==
    /\ h.pc = "profile_anon"
    /\ IF h.anonymous_name # None /\
          \E u \in UsersWhere("anonymous_name", h.anonymous_name) : u.id # h.uid
       THEN /\ Return(h)
            /\ resp' = Error("update_profile", 400, "Anonymous name already taken")
       ELSE /\ Goto(h, [h EXCEPT !.pc = "profile_email"])
            /\ resp' = resp
    /\ UNCHANGED <<content, now, users, refresh_tokens, next_id, otps, next_otp, issued, logged_out, revoked,
                   metrics_collector>>

\* `if email:` and the lookup of another user with that e-mail.
update_profile_email(h) ==
    /\ h.pc = "profile_email"
    /\ IF h.email # None /\ \E u \in UsersWhere("email", h.email) : u.id # h.uid
       THEN /\ Return(h)
            /\ resp' = Error("update_profile", 400, "Email already taken")
       ELSE /\ Goto(h, [h EXCEPT !.pc = "profile_update"])
            /\ resp' = resp
    /\ UNCHANGED <<content, now, users, refresh_tokens, next_id, otps, next_otp, issued, logged_out, revoked,
                   metrics_collector>>

\* update_one({"_id": ...}, {"$set": update_fields})
update_profile_update(h) ==
    /\ h.pc = "profile_update"
    /\ Return(h)
    /\ users' = {IF u.id = h.uid
                 THEN [u EXCEPT
                         !.anonymous_name = IF h.anonymous_name # None
                                            THEN h.anonymous_name ELSE @,
                         !.email = IF h.email # None THEN h.email ELSE @]
                 ELSE u : u \in users}
    /\ resp' = [op |-> "update_profile", status |-> 200, uid |-> h.uid]
    /\ UNCHANGED <<content, now, refresh_tokens, next_id, otps, next_otp, issued, logged_out, revoked,
                   metrics_collector>>

\* ------------------------------------------------------------ content routes
\* The Authorization header of a request: a token, or none at all.
NoCredentials == [type |-> "none"]
Credentials == Presentable \cup {NoCredentials}

\* security = HTTPBearer(): a request without credentials is answered 403
\* before the dependency that asked for them runs.
HTTPBearer(credentials) == IF credentials = NoCredentials THEN 403 ELSE 200

StoryStatus == {"draft", "pending", "approved", "rejected"}

\* $inc {"points": 1} on the users document of the author.
award_point(uid) == [points EXCEPT ![uid] = @ + 1]

\* insert_one: the document with the _id the collection gives it, an id no
\* document of the collection holds.
new_id(collection) ==
    CHOOSE id \in 1..(Cardinality(collection) + 1) : \A doc \in collection : doc.id # id
insert_one(collection, doc) ==
    collection \cup {[f \in DOMAIN doc \cup {"id"} |->
                         IF f = "id" THEN new_id(collection) ELSE doc[f]]}

\* A story document stored as a draft.
story_doc_Draft(current_user) ==
    [title |-> "t1", author_id |-> current_user.id, status |-> "draft",
     rejection_reason |-> None, total_reads |-> 0, likes |-> 0, liked_by |-> {}]

\* create_story: the document it builds (liked_by is kept by $addToSet and
\* $pull, a set).
story_doc(current_user) ==
    [title |-> "t1", author_id |-> current_user.id, status |-> "approved",
     rejection_reason |-> None, total_reads |-> 0, likes |-> 0, liked_by |-> {}]

\* create_story: the activity stamp, insert_one(story_doc), the point.
create_story(credentials) ==
    /\ AllIdle
    /\ Cardinality(stories) < MaxContent
    /\ HTTPBearer(credentials) = 200
    /\ get_current_user_status(credentials) = 200
    /\ \E current_user \in get_current_user(credentials) :
          /\ update_refresh_token_activity(current_user.username)
          /\ stories' = insert_one(stories, story_doc(current_user))
          /\ points' = award_point(current_user.id)
          /\ resp' = [op |-> "create_story", status |-> 201,
                      id |-> new_id(stories),
                      story_status |-> story_doc(current_user).status]
    /\ UNCHANGED <<now, users, next_id, otps, next_otp, tasks, issued, logged_out, revoked,
                   videos, shots,
                   dependents,
                   metrics_collector>>

\* create_video: the document it builds.
video_doc(current_user) ==
    [caption |-> "t1", author_id |-> current_user.id, status |-> "approved",
     views |-> 0, likes |-> 0, liked_by |-> {}]

\* create_video: insert_one(video), the point.
create_video(credentials) ==
    /\ AllIdle
    /\ Cardinality(videos) < MaxContent
    /\ HTTPBearer(credentials) = 200
    /\ get_current_user_status(credentials) = 200
    /\ \E current_user \in get_current_user(credentials) :
          /\ videos' = insert_one(videos, video_doc(current_user))
          /\ points' = award_point(current_user.id)
          /\ resp' = [op |-> "create_video", status |-> 200,
                      id |-> new_id(videos)]
    /\ UNCHANGED <<now, users, refresh_tokens, next_id, otps, next_otp, tasks, issued,
                   logged_out, revoked, stories, shots,
                   dependents,
                   metrics_collector>>

\* create_shot: current_user["id"] is read from a users document, which has
\* "_id" and no "id"; the KeyError is caught and answered 500 before
\* insert_one is reached.
create_shot(credentials) ==
    /\ AllIdle
    /\ HTTPBearer(credentials) = 200
    /\ get_current_user_status(credentials) = 200
    /\ resp' = Error("create_shot", 500, "Error creating shot: 'id'")
    /\ UNCHANGED <<now, users, refresh_tokens, next_id, otps, next_otp, tasks, issued,
                   logged_out, revoked, content,
                   metrics_collector>>

\* get_story: the status it answers with for these credentials.
get_story_status(credentials, story_id) ==
    IF HTTPBearer(credentials) # 200 THEN 403
    ELSE LET found == {story \in stories : story.id = story_id}
         IN  IF found = {} THEN 404
             ELSE IF \E story \in found :
                        /\ story.status # "approved"
                        /\ \/ get_optional_user(credentials) = {}
                           \/ \E current_user \in get_optional_user(credentials) :
                                 /\ story.author_id # current_user.id
                                 /\ current_user.role # "admin"
             THEN 403
             ELSE 200

\* get_story: the activity stamp of the user found, then the read counter.
get_story(credentials, story_id) ==
    /\ AllIdle
    /\ HTTPBearer(credentials) = 200
    /\ IF get_optional_user(credentials) # {}
       THEN \E current_user \in get_optional_user(credentials) :
               update_refresh_token_activity(current_user.username)
       ELSE refresh_tokens' = refresh_tokens
    /\ IF get_story_status(credentials, story_id) = 200
       THEN stories' = {IF story.id = story_id /\ story.total_reads < MaxReads
                        THEN [story EXCEPT !.total_reads = @ + 1]
                        ELSE story : story \in stories}
       ELSE stories' = stories
    /\ resp' = [op |-> "get_story", status |-> get_story_status(credentials, story_id),
                id |-> story_id]
    /\ UNCHANGED <<now, users, next_id, otps, next_otp, tasks, issued, logged_out, revoked,
                   videos, shots, points,
                   dependents,
                   metrics_collector>>

\* get_video: the status it answers with; the document's status is not read.
get_video_status(credentials, video_id) ==
    IF HTTPBearer(credentials) # 200 THEN 403
    ELSE IF {video \in videos : video.id = video_id} = {} THEN 404
    ELSE 200

\* get_video: the view counter.
get_video(credentials, video_id) ==
    /\ AllIdle
    /\ HTTPBearer(credentials) = 200
    /\ IF get_video_status(credentials, video_id) = 200
       THEN videos' = {IF video.id = video_id /\ video.views < MaxReads
                       THEN [video EXCEPT !.views = @ + 1]
                       ELSE video : video \in videos}
       ELSE videos' = videos
    /\ resp' = [op |-> "get_video", status |-> get_video_status(credentials, video_id),
                id |-> video_id]
    /\ UNCHANGED <<now, users, refresh_tokens, next_id, otps, next_otp, tasks, issued,
                   logged_out, revoked, stories, shots, points,
                   dependents,
                   metrics_collector>>

\* get_shot: behind get_current_user; for a shot that exists it reads
\* current_user["id"], and the KeyError is answered 500.
get_shot_status(credentials, shot_id) ==
    IF HTTPBearer(credentials) # 200 THEN 403
    ELSE IF get_current_user_status(credentials) # 200
    THEN get_current_user_status(credentials)
    ELSE IF {shot \in shots : shot.id = shot_id} = {} THEN 404
    ELSE 500

get_shot(credentials, shot_id) ==
    /\ AllIdle
    /\ HTTPBearer(credentials) = 200
    /\ get_current_user_status(credentials) = 200
    /\ resp' = [op |-> "get_shot", status |-> get_shot_status(credentials, shot_id),
                id |-> shot_id]
    /\ UNCHANGED <<now, users, refresh_tokens, next_id, otps, next_otp, tasks, issued,
                   logged_out, revoked, content,
                   metrics_collector>>

\* The listings.  A page holds the documents the query matches (page_size is
\* the caller's to choose); get_optional_user lets any credentials through.
\* get_all_stories: query = {} and an optional search.
get_all_stories(credentials) ==
    /\ AllIdle
    /\ HTTPBearer(credentials) = 200
    /\ resp' = [op |-> "get_all_stories", status |-> 200, items |-> stories]
    /\ UNCHANGED <<now, users, refresh_tokens, next_id, otps, next_otp, tasks, issued,
                   logged_out, revoked, content,
                   metrics_collector>>

\* get_feed: the same query as get_all_stories.
get_feed(credentials) ==
    /\ AllIdle
    /\ HTTPBearer(credentials) = 200
    /\ resp' = [op |-> "get_feed", status |-> 200, items |-> stories]
    /\ UNCHANGED <<now, users, refresh_tokens, next_id, otps, next_otp, tasks, issued,
                   logged_out, revoked, content,
                   metrics_collector>>

\* get_author_stories (the first of the two handlers registered on the path
\* serves it): query = {"author_id": author_id, "status": "approved"}.
get_author_stories(credentials, author_id) ==
    /\ AllIdle
    /\ HTTPBearer(credentials) = 200
    /\ resp' = [op |-> "get_author_stories", status |-> 200,
                items |-> {story \in stories : /\ story.author_id = author_id
                                               /\ story.status = "approved"}]
    /\ UNCHANGED <<now, users, refresh_tokens, next_id, otps, next_otp, tasks, issued,
                   logged_out, revoked, content,
                   metrics_collector>>

\* get_videos: query = {"status": StoryStatus.APPROVED}.
get_videos(credentials) ==
    /\ AllIdle
    /\ HTTPBearer(credentials) = 200
    /\ resp' = [op |-> "get_videos", status |-> 200,
                items |-> {video \in videos : video.status = "approved"}]
    /\ UNCHANGED <<now, users, refresh_tokens, next_id, otps, next_otp, tasks, issued,
                   logged_out, revoked, content,
                   metrics_collector>>

\* get_shots: behind get_current_user; the query takes the caller's
\* status_filter, and current_user["id"] is read for the caller's likes: the
\* KeyError is answered 500, with no shot returned.
get_shots(credentials, status_filter) ==
    /\ AllIdle
    /\ HTTPBearer(credentials) = 200
    /\ get_current_user_status(credentials) = 200
    /\ resp' = [op |-> "get_shots", status |-> 500, items |-> {},
                detail |-> "Error fetching shots: 'id'"]
    /\ UNCHANGED <<now, users, refresh_tokens, next_id, otps, next_otp, tasks, issued,
                   logged_out, revoked, content,
                   metrics_collector>>

\* POST /api/stories/{story_id}/submit: the router has no route of that path,
\* so the request is answered 404 before any dependency runs.
submit_story(credentials, story_id) ==
    /\ AllIdle
    /\ resp' = [op |-> "submit_story", status |-> 404, detail |-> "Not Found",
                id |-> story_id, credentials |-> credentials]
    /\ UNCHANGED <<now, users, refresh_tokens, next_id, otps, next_otp, tasks, issued,
                   logged_out, revoked, content,
                   metrics_collector>>

\* approve_or_reject_shot: behind get_current_admin_user; the update is made
\* whatever the shot's status, and the log line that follows reads
\* current_user["id"]: the KeyError is answered 500 after the update.
approve_or_reject_shot(credentials, shot_id, approved, rejection_reason) ==
    /\ AllIdle
    /\ HTTPBearer(credentials) = 200
    /\ get_current_user_status(credentials) = 200
    /\ \E current_user \in get_current_user(credentials) :
          IF current_user.role # "admin"
          THEN /\ resp' = Error("approve_or_reject_shot", 403, "Not enough permissions")
               /\ shots' = shots
          ELSE IF {shot \in shots : shot.id = shot_id} = {}
          THEN /\ resp' = Error("approve_or_reject_shot", 404, "Shot not found")
               /\ shots' = shots
          ELSE /\ shots' = {IF shot.id = shot_id
                            THEN [f \in DOMAIN shot \cup
                                        (IF ~approved /\ rejection_reason # None
                                         THEN {"rejection_reason"} ELSE {}) |->
                                    IF f = "status"
                                    THEN (IF approved THEN "approved" ELSE "rejected")
                                    ELSE IF f = "rejection_reason" /\ ~approved
                                            /\ rejection_reason # None
                                    THEN rejection_reason
                                    ELSE shot[f]]
                            ELSE shot : shot \in shots}
               /\ resp' = Error("approve_or_reject_shot", 500,
                                "Error approving/rejecting shot: 'id'")
    /\ UNCHANGED <<now, users, refresh_tokens, next_id, otps, next_otp, tasks, issued,
                   logged_out, revoked, stories, videos, points,
                   dependents,
                   metrics_collector>>

\* ------------------------------------------------------- updates and deletes
\* The ownership checks: the author only for an update, the author or an
\* admin for a delete.
may_update(author_id, current_user) == author_id = current_user.id

\* A delete check that lets every caller through.
may_delete_Anyone(author_id, current_user) == TRUE

may_delete(author_id, current_user) ==
    author_id = current_user.id \/ current_user.role = "admin"

\* The response of a handler behind get_current_user, with its caller.
Answer(op, status, id, current_user) ==
    [op |-> op, status |-> status, id |-> id, uid |-> current_user.id,
     role |-> current_user.role]

\* None where the _id of a document is expected.
NoId == 0

\* update_story: the activity stamp, then find_one, the ownership check and
\* update_one.
update_story(credentials, story_id, title) ==
    /\ AllIdle
    /\ HTTPBearer(credentials) = 200
    /\ get_current_user_status(credentials) = 200
    /\ \E current_user \in get_current_user(credentials) :
          /\ update_refresh_token_activity(current_user.username)
          /\ LET found == {story \in stories : story.id = story_id}
             IN  IF found = {}
                 THEN /\ resp' = Answer("update_story", 404, story_id, current_user)
                      /\ stories' = stories
                 ELSE IF \E story \in found : ~may_update(story.author_id, current_user)
                 THEN /\ resp' = Answer("update_story", 403, story_id, current_user)
                      /\ stories' = stories
                 ELSE /\ resp' = Answer("update_story", 200, story_id, current_user)
                      /\ stories' = {IF story.id = story_id
                                     THEN [story EXCEPT !.title = title]
                                     ELSE story : story \in stories}
    /\ UNCHANGED <<now, users, next_id, otps, next_otp, tasks, issued, logged_out, revoked,
                   videos, shots, points, dependents,
                   metrics_collector>>

\* delete_story: the activity stamp, then delete_one and the delete_many of
\* its chapters and comments.
delete_story(credentials, story_id) ==
    /\ AllIdle
    /\ HTTPBearer(credentials) = 200
    /\ get_current_user_status(credentials) = 200
    /\ \E current_user \in get_current_user(credentials) :
          /\ update_refresh_token_activity(current_user.username)
          /\ LET found == {story \in stories : story.id = story_id}
             IN  IF found = {}
                 THEN /\ resp' = Answer("delete_story", 404, story_id, current_user)
                      /\ UNCHANGED <<stories, dependents>>
                 ELSE IF \E story \in found : ~may_delete(story.author_id, current_user)
                 THEN /\ resp' = Answer("delete_story", 403, story_id, current_user)
                      /\ UNCHANGED <<stories, dependents>>
                 ELSE /\ resp' = Answer("delete_story", 200, story_id, current_user)
                      /\ stories' = stories \ found
                      /\ chapters' = {ch \in chapters : ch.story_id # story_id}
                      /\ comments' = {c \in comments : c.story_id # story_id}
    /\ UNCHANGED <<now, users, next_id, otps, next_otp, tasks, issued, logged_out, revoked,
                   videos, shots, points,
                   metrics_collector>>

\* update_video: find_one, the ownership check, update_one.
update_video(credentials, video_id, caption) ==
    /\ AllIdle
    /\ HTTPBearer(credentials) = 200
    /\ get_current_user_status(credentials) = 200
    /\ \E current_user \in get_current_user(credentials) :
          LET found == {video \in videos : video.id = video_id}
          IN  IF found = {}
              THEN /\ resp' = Answer("update_video", 404, video_id, current_user)
                   /\ videos' = videos
              ELSE IF \E video \in found : ~may_update(video.author_id, current_user)
              THEN /\ resp' = Answer("update_video", 403, video_id, current_user)
                   /\ videos' = videos
              ELSE /\ resp' = Answer("update_video", 200, video_id, current_user)
                   /\ videos' = {IF video.id = video_id
                                 THEN [video EXCEPT !.caption = caption]
                                 ELSE video : video \in videos}
    /\ UNCHANGED <<now, users, refresh_tokens, next_id, otps, next_otp, tasks, issued,
                   logged_out, revoked, stories, shots, points, dependents,
                   metrics_collector>>

\* delete_video: the delete_many of its comments, then delete_one.
delete_video(credentials, video_id) ==
    /\ AllIdle
    /\ HTTPBearer(credentials) = 200
    /\ get_current_user_status(credentials) = 200
    /\ \E current_user \in get_current_user(credentials) :
          LET found == {video \in videos : video.id = video_id}
          IN  IF found = {}
              THEN /\ resp' = Answer("delete_video", 404, video_id, current_user)
                   /\ UNCHANGED <<videos, comments>>
              ELSE IF \E video \in found : ~may_delete(video.author_id, current_user)
              THEN /\ resp' = Answer("delete_video", 403, video_id, current_user)
                   /\ UNCHANGED <<videos, comments>>
              ELSE /\ resp' = Answer("delete_video", 200, video_id, current_user)
                   /\ comments' = {c \in comments : c.video_id # video_id}
                   /\ videos' = videos \ found
    /\ UNCHANGED <<now, users, refresh_tokens, next_id, otps, next_otp, tasks, issued,
                   logged_out, revoked, stories, shots, points, chapters,
                   metrics_collector>>

\* update_shot and delete_shot: for a shot that exists the ownership check
\* reads current_user["id"], and the KeyError is answered 500.
update_shot(credentials, shot_id) ==
    /\ AllIdle
    /\ HTTPBearer(credentials) = 200
    /\ get_current_user_status(credentials) = 200
    /\ \E current_user \in get_current_user(credentials) :
          resp' = Answer("update_shot",
                         IF {shot \in shots : shot.id = shot_id} = {} THEN 404 ELSE 500,
                         shot_id, current_user)
    /\ UNCHANGED <<now, users, refresh_tokens, next_id, otps, next_otp, tasks, issued,
                   logged_out, revoked, content,
                   metrics_collector>>

delete_shot(credentials, shot_id) ==
    /\ AllIdle
    /\ HTTPBearer(credentials) = 200
    /\ get_current_user_status(credentials) = 200
    /\ \E current_user \in get_current_user(credentials) :
          resp' = Answer("delete_shot",
                         IF {shot \in shots : shot.id = shot_id} = {} THEN 404 ELSE 500,
                         shot_id, current_user)
    /\ UNCHANGED <<now, users, refresh_tokens, next_id, otps, next_otp, tasks, issued,
                   logged_out, revoked, content,
                   metrics_collector>>

\* create_chapter: by the story's author, one chapter per chapter_number.
create_chapter(credentials, story_id, chapter_number) ==
    /\ AllIdle
    /\ Cardinality(chapters) < MaxChapters
    /\ HTTPBearer(credentials) = 200
    /\ get_current_user_status(credentials) = 200
    /\ \E current_user \in get_current_user(credentials) :
          LET found == {story \in stories : story.id = story_id}
          IN  IF found = {}
              THEN /\ resp' = Answer("create_chapter", 404, story_id, current_user)
                   /\ chapters' = chapters
              ELSE IF \E story \in found : ~may_update(story.author_id, current_user)
              THEN /\ resp' = Answer("create_chapter", 403, story_id, current_user)
                   /\ chapters' = chapters
              ELSE IF \E ch \in chapters : /\ ch.story_id = story_id
                                           /\ ch.chapter_number = chapter_number
              THEN /\ resp' = Answer("create_chapter", 400, story_id, current_user)
                   /\ chapters' = chapters
              ELSE /\ resp' = Answer("create_chapter", 201, new_id(chapters), current_user)
                   /\ chapters' = insert_one(chapters,
                                     [title |-> "t1", chapter_number |-> chapter_number,
                                      story_id |-> story_id, published |-> FALSE])
    /\ UNCHANGED <<now, users, refresh_tokens, next_id, otps, next_otp, tasks, issued,
                   logged_out, revoked, stories, videos, shots, points, comments,
                   metrics_collector>>

\* The author of the story a chapter belongs to (story["author_id"] of a
\* story that is gone is a TypeError, answered 500); deleting is checked
\* with may_delete, updating with may_update.
chapter_status(chapter, current_user, deleting) ==
    LET found == {story \in stories : story.id = chapter.story_id}
    IN  IF found = {} THEN 500
        ELSE IF \E story \in found :
                   IF deleting THEN ~may_delete(story.author_id, current_user)
                   ELSE ~may_update(story.author_id, current_user)
        THEN 403
        ELSE 200

\* update_chapter: find_one, the author check on its story, update_one.
update_chapter(credentials, chapter_id, title) ==
    /\ AllIdle
    /\ HTTPBearer(credentials) = 200
    /\ get_current_user_status(credentials) = 200
    /\ \E current_user \in get_current_user(credentials) :
          LET found == {ch \in chapters : ch.id = chapter_id}
          IN  IF found = {}
              THEN /\ resp' = Answer("update_chapter", 404, chapter_id, current_user)
                   /\ chapters' = chapters
              ELSE \E chapter \in found :
                     /\ resp' = Answer("update_chapter",
                                       chapter_status(chapter, current_user, FALSE),
                                       chapter_id, current_user)
                     /\ IF chapter_status(chapter, current_user, FALSE) = 200
                        THEN chapters' = (chapters \ {chapter}) \cup
                                            {[chapter EXCEPT !.title = title]}
                        ELSE chapters' = chapters
    /\ UNCHANGED <<now, users, refresh_tokens, next_id, otps, next_otp, tasks, issued,
                   logged_out, revoked, stories, videos, shots, points, comments,
                   metrics_collector>>

\* delete_chapter: delete_one, then the delete_many of its comments.
delete_chapter(credentials, chapter_id) ==
    /\ AllIdle
    /\ HTTPBearer(credentials) = 200
    /\ get_current_user_status(credentials) = 200
    /\ \E current_user \in get_current_user(credentials) :
          LET found == {ch \in chapters : ch.id = chapter_id}
          IN  IF found = {}
              THEN /\ resp' = Answer("delete_chapter", 404, chapter_id, current_user)
                   /\ UNCHANGED dependents
              ELSE \E chapter \in found :
                     /\ resp' = Answer("delete_chapter",
                                       chapter_status(chapter, current_user, TRUE),
                                       chapter_id, current_user)
                     /\ IF chapter_status(chapter, current_user, TRUE) = 200
                        THEN /\ chapters' = chapters \ {chapter}
                             /\ comments' = {c \in comments : c.chapter_id # chapter_id}
                        ELSE UNCHANGED dependents
    /\ UNCHANGED <<now, users, refresh_tokens, next_id, otps, next_otp, tasks, issued,
                   logged_out, revoked, stories, videos, shots, points,
                   metrics_collector>>

\* An id travels as a string of 24 hex digits.  ObjectId(s) parses it whatever
\* the case of its letters and str(oid) writes it in lower case: the string n
\* is the lower-case spelling of the id n and Upper(n) its upper-case one.
Upper(oid) == 0 - oid

ObjectId(s) == IF s < 0 THEN 0 - s ELSE s

str(oid) == oid

\* create_comment: a comment or a reply on a story; the chapter_id and the
\* parent_comment_id are stored as the request spells them.
create_comment(credentials, story_id, chapter_id, parent_comment_id) ==
    /\ AllIdle
    /\ HTTPBearer(credentials) = 200
    /\ get_current_user_status(credentials) = 200
    /\ \E current_user \in get_current_user(credentials) :
          IF {story \in stories : story.id = story_id} = {}
          THEN /\ resp' = Answer("create_comment", 404, story_id, current_user)
               /\ comments' = comments
          ELSE IF /\ parent_comment_id # NoId
                  /\ {c \in comments : c.id = ObjectId(parent_comment_id)} = {}
          THEN /\ resp' = Answer("create_comment", 404, story_id, current_user)
               /\ comments' = comments
          ELSE /\ resp' = Answer("create_comment", 201, new_id(comments), current_user)
               /\ comments' = insert_one(comments,
                                 [content |-> "t1", story_id |-> story_id,
                                  video_id |-> NoId, chapter_id |-> chapter_id,
                                  parent_comment_id |-> parent_comment_id,
                                  user_id |-> current_user.id])
    /\ UNCHANGED <<now, users, refresh_tokens, next_id, otps, next_otp, tasks, issued,
                   logged_out, revoked, stories, videos, shots, points, chapters,
                   metrics_collector>>

\* create_video_comment: a comment on a video.
create_video_comment(credentials, video_id) ==
    /\ AllIdle
    /\ HTTPBearer(credentials) = 200
    /\ get_current_user_status(credentials) = 200
    /\ \E current_user \in get_current_user(credentials) :
          IF {video \in videos : video.id = video_id} = {}
          THEN /\ resp' = Answer("create_video_comment", 404, video_id, current_user)
               /\ comments' = comments
          ELSE /\ resp' = Answer("create_video_comment", 201, new_id(comments),
                                 current_user)
               /\ comments' = insert_one(comments,
                                 [content |-> "t1", story_id |-> NoId,
                                  video_id |-> video_id, chapter_id |-> NoId,
                                  parent_comment_id |-> NoId,
                                  user_id |-> current_user.id])
    /\ UNCHANGED <<now, users, refresh_tokens, next_id, otps, next_otp, tasks, issued,
                   logged_out, revoked, stories, videos, shots, points, chapters,
                   metrics_collector>>

\* update_comment: by its owner only.  The response is built from
\* updated["story_id"], a key a video comment does not have: the KeyError is
\* answered 500 after the update.
update_comment(credentials, comment_id, content_text) ==
    /\ AllIdle
    /\ HTTPBearer(credentials) = 200
    /\ get_current_user_status(credentials) = 200
    /\ \E current_user \in get_current_user(credentials) :
          LET found == {c \in comments : c.id = comment_id}
          IN  IF found = {}
              THEN /\ resp' = Answer("update_comment", 404, comment_id, current_user)
                   /\ comments' = comments
              ELSE \E comment \in found :
                     IF ~may_update(comment.user_id, current_user)
                     THEN /\ resp' = Answer("update_comment", 403, comment_id,
                                            current_user)
                          /\ comments' = comments
                     ELSE /\ resp' = Answer("update_comment",
                                            IF comment.story_id = NoId THEN 500 ELSE 200,
                                            comment_id, current_user)
                          /\ comments' = (comments \ {comment}) \cup
                                            {[comment EXCEPT !.content = content_text]}
    /\ UNCHANGED <<now, users, refresh_tokens, next_id, otps, next_otp, tasks, issued,
                   logged_out, revoked, stories, videos, shots, points, chapters,
                   metrics_collector>>

\* delete_comment_recursive: the ids it deletes.  The replies are the
\* comments whose stored parent_comment_id is the string comment_id; each is
\* deleted the same way under str(reply["_id"]), then the comment itself.
RECURSIVE delete_comment_recursive(_, _)
delete_comment_recursive(comment_id, depth) ==
    {ObjectId(comment_id)} \cup
        (IF depth = 0 THEN {}
         ELSE UNION {delete_comment_recursive(str(reply.id), depth - 1) :
                        reply \in {c \in comments : c.parent_comment_id = comment_id}})

\* delete_comment: by its owner or an admin.
delete_comment(credentials, comment_id) ==
    /\ AllIdle
    /\ HTTPBearer(credentials) = 200
    /\ get_current_user_status(credentials) = 200
    /\ \E current_user \in get_current_user(credentials) :
          LET found == {c \in comments : c.id = ObjectId(comment_id)}
          IN  IF found = {}
              THEN /\ resp' = Answer("delete_comment", 404, ObjectId(comment_id),
                                     current_user)
                   /\ comments' = comments
              ELSE IF \E comment \in found : ~may_delete(comment.user_id, current_user)
              THEN /\ resp' = Answer("delete_comment", 403, ObjectId(comment_id),
                                     current_user)
                   /\ comments' = comments
              ELSE /\ resp' = Answer("delete_comment", 200, ObjectId(comment_id),
                                     current_user)
                   /\ comments' = {c \in comments :
                                     c.id \notin delete_comment_recursive(
                                                     comment_id, Cardinality(comments))}
    /\ UNCHANGED <<now, users, refresh_tokens, next_id, otps, next_otp, tasks, issued,
                   logged_out, revoked, stories, videos, shots, points, chapters,
                   metrics_collector>>

\* ----------------------------------------------------- chapter numbers
\* create_chapter up to its check of the chapter number: the story and author
\* checks, then find_one on story_id and chapter_number.  The handler goes on
\* to insert_one if it found none.
create_chapter_find_one(credentials, story_id, chapter_number) ==
    /\ CanStart
    /\ HTTPBearer(credentials) = 200
    /\ get_current_user_status(credentials) = 200
    /\ \E current_user \in get_current_user(credentials) :
          LET found == {story \in stories : story.id = story_id}
          IN  IF found = {}
              THEN /\ resp' = Answer("create_chapter", 404, story_id, current_user)
                   /\ tasks' = tasks
              ELSE IF \E story \in found : ~may_update(story.author_id, current_user)
              THEN /\ resp' = Answer("create_chapter", 403, story_id, current_user)
                   /\ tasks' = tasks
              ELSE IF \E ch \in chapters : /\ ch.story_id = story_id
                                           /\ ch.chapter_number = chapter_number
              THEN /\ resp' = Answer("create_chapter", 400, story_id, current_user)
                   /\ tasks' = tasks
              ELSE /\ Start([pc |-> "create_chapter_insert_one", start |-> now,
                             user |-> current_user, story_id |-> story_id,
                             chapter_number |-> chapter_number])
                   /\ resp' = resp
    /\ UNCHANGED <<now, users, refresh_tokens, next_id, otps, next_otp, issued,
                   logged_out, revoked, content,
                   metrics_collector>>

\* insert_one of the chapter document.
create_chapter_insert_one(h) ==
    /\ h.pc = "create_chapter_insert_one"
    /\ resp' = Answer("create_chapter", 201, new_id(chapters), h.user)
    /\ chapters' = insert_one(chapters,
                      [title |-> "t1", chapter_number |-> h.chapter_number,
                       story_id |-> h.story_id, published |-> FALSE])
    /\ Return(h)
    /\ UNCHANGED <<now, users, refresh_tokens, next_id, otps, next_otp, issued,
                   logged_out, revoked, stories, videos, shots, points, comments,
                   metrics_collector>>

\* update_chapter with a chapter_number, up to its check of the number:
\* find_one of the chapter, the author check, then find_one of another chapter
\* of the story with that number.  The handler goes on to update_one.
update_chapter_find_one(credentials, chapter_id, chapter_number) ==
    /\ CanStart
    /\ HTTPBearer(credentials) = 200
    /\ get_current_user_status(credentials) = 200
    /\ \E current_user \in get_current_user(credentials) :
          LET found == {ch \in chapters : ch.id = chapter_id}
          IN  IF found = {}
              THEN /\ resp' = Answer("update_chapter", 404, chapter_id, current_user)
                   /\ tasks' = tasks
              ELSE \E chapter \in found :
                     IF chapter_status(chapter, current_user, FALSE) # 200
                     THEN /\ resp' = Answer("update_chapter",
                                            chapter_status(chapter, current_user, FALSE),
                                            chapter_id, current_user)
                          /\ tasks' = tasks
                     ELSE IF \E ch \in chapters : /\ ch.story_id = chapter.story_id
                                                  /\ ch.chapter_number = chapter_number
                                                  /\ ch.id # chapter_id
                     THEN /\ resp' = Answer("update_chapter", 400, chapter_id,
                                            current_user)
                          /\ tasks' = tasks
                     ELSE /\ Start([pc |-> "update_chapter_update_one", start |-> now,
                                    user |-> current_user, chapter_id |-> chapter_id,
                                    chapter_number |-> chapter_number])
                          /\ resp' = resp
    /\ UNCHANGED <<now, users, refresh_tokens, next_id, otps, next_otp, issued,
                   logged_out, revoked, content,
                   metrics_collector>>

\* update_one with $set chapter_number on the chapter's document.
update_chapter_update_one(h) ==
    /\ h.pc = "update_chapter_update_one"
    /\ resp' = Answer("update_chapter", 200, h.chapter_id, h.user)
    /\ chapters' = {IF ch.id = h.chapter_id
                    THEN [ch EXCEPT !.chapter_number = h.chapter_number]
                    ELSE ch : ch \in chapters}
    /\ Return(h)
    /\ UNCHANGED <<now, users, refresh_tokens, next_id, otps, next_otp, issued,
                   logged_out, revoked, stories, videos, shots, points, comments,
                   metrics_collector>>

\* ------------------------------------------------------------------ likes
\* toggle_story_like: get_current_user and find_one; the handler goes on with
\* the document it read.
toggle_story_like(credentials, story_id) ==
    /\ CanStart
    /\ HTTPBearer(credentials) = 200
    /\ get_current_user_status(credentials) = 200
    /\ \E current_user \in get_current_user(credentials) :
          IF {story \in stories : story.id = story_id} = {}
          THEN /\ resp' = Answer("toggle_story_like", 404, story_id, current_user)
               /\ tasks' = tasks
          ELSE \E story \in {x \in stories : x.id = story_id} :
                 /\ Start([pc |-> "toggle_story_like_update", start |-> now,
                           user |-> current_user, story |-> story])
                 /\ resp' = resp
    /\ UNCHANGED <<now, users, refresh_tokens, next_id, otps, next_otp, issued,
                   logged_out, revoked, content,
                   metrics_collector>>

\* The response of a like toggle.
Toggled(h, liked, new_likes, points_earned) ==
    [op |-> "toggle_story_like", status |-> 200, id |-> h.story.id,
     uid |-> h.user.id, liked |-> liked,
     total_likes |-> IF new_likes < 0 THEN 0 ELSE new_likes,
     points_earned |-> points_earned]

\* update_one with $pull and $inc -1, or with $addToSet and $inc 1, on the
\* stored document; new_likes is computed from the document read before.
toggle_story_like_update(h) ==
    /\ h.pc = "toggle_story_like_update"
    /\ IF h.user.id \in h.story.liked_by
       THEN /\ stories' = {IF story.id = h.story.id
                           THEN [story EXCEPT !.liked_by = @ \ {h.user.id},
                                              !.likes = @ - 1]
                           ELSE story : story \in stories}
            /\ resp' = Toggled(h, FALSE, h.story.likes - 1, 0)
            /\ Return(h)
       ELSE /\ stories' = {IF story.id = h.story.id
                           THEN [story EXCEPT !.liked_by = @ \cup {h.user.id},
                                              !.likes = @ + 1]
                           ELSE story : story \in stories}
            /\ IF h.story.likes + 1 > 0 /\ (h.story.likes + 1) % Milestone = 0
               THEN /\ Goto(h, [h EXCEPT !.pc = "toggle_story_like_award"])
                    /\ resp' = resp
               ELSE /\ resp' = Toggled(h, TRUE, h.story.likes + 1, 0)
                    /\ Return(h)
    /\ UNCHANGED <<now, users, refresh_tokens, next_id, otps, next_otp, issued,
                   logged_out, revoked, videos, shots, points, dependents,
                   metrics_collector>>

\* The milestone point: $inc {"points": 1} on the author's document.
toggle_story_like_award(h) ==
    /\ h.pc = "toggle_story_like_award"
    /\ points' = award_point(h.story.author_id)
    /\ resp' = Toggled(h, TRUE, h.story.likes + 1, 1)
    /\ Return(h)
    /\ UNCHANGED <<now, users, refresh_tokens, next_id, otps, next_otp, issued,
                   logged_out, revoked, stories, videos, shots, dependents,
                   metrics_collector>>

\* POST /api/videos/{video_id}/like: two handlers are registered on the path
\* and the router serves the first, toggle_like_video, which checks the id and
\* returns nothing (the body is null); toggle_video_like never runs.
toggle_like_video(credentials, video_id) ==
    /\ AllIdle
    /\ HTTPBearer(credentials) = 200
    /\ get_current_user_status(credentials) = 200
    /\ \E current_user \in get_current_user(credentials) :
          resp' = [op |-> "toggle_like_video", status |-> 200, id |-> video_id,
                   uid |-> current_user.id, body |-> None]
    /\ UNCHANGED <<now, users, refresh_tokens, next_id, otps, next_otp, tasks, issued,
                   logged_out, revoked, content,
                   metrics_collector>>

\* ----------------------------------------------------------------- points
\* user.get("referral_count", 0): no handler writes the field.
referral_count(user) == 0

\* $group with $sum of $ifNull("$likes", 0) over the matched documents.
RECURSIVE total_likes(_)
total_likes(items) ==
    IF items = {} THEN 0
    ELSE LET item == CHOOSE x \in items : TRUE
         IN  item.likes + total_likes(items \ {item})

\* calculate_user_points: total_points for the string user_id.  The user is
\* found by ObjectId(user_id); stories, videos and shots are matched by
\* author_id = user_id, the string as given (author_id is stored as
\* str(_id)); no comment matches, its user_id is not a string and it has no
\* likes.
calculate_user_points(user_id) ==
    IF {u \in users : u.id = ObjectId(user_id)} = {} THEN 0
    ELSE LET user == CHOOSE u \in users : u.id = ObjectId(user_id)
             referral_points == referral_count(user) * 10
             stories_count == Cardinality({story \in stories :
                                             /\ story.author_id = user_id
                                             /\ story.status = "approved"})
             like_points == (total_likes({story \in stories : story.author_id = user_id})
                             + total_likes({video \in videos : video.author_id = user_id})
                             + total_likes({shot \in shots : shot.author_id = user_id}))
                            \div Milestone
         IN  referral_points + stories_count + like_points

\* update_user_points: $set points on the document with _id ObjectId(user_id).
update_user_points(user_id) ==
    points' = [uid \in DOMAIN points |->
                  IF uid = ObjectId(user_id) /\ \E u \in users : u.id = uid
                  THEN calculate_user_points(user_id)
                  ELSE points[uid]]

\* get_my_stats: update_user_points(str(current_user["_id"])), then the stats.
get_my_stats(credentials) ==
    /\ AllIdle
    /\ HTTPBearer(credentials) = 200
    /\ get_current_user_status(credentials) = 200
    /\ \E current_user \in get_current_user(credentials) :
          /\ update_user_points(str(current_user.id))
          /\ resp' = [op |-> "get_my_stats", status |-> 200, uid |-> current_user.id,
                      points |-> points'[current_user.id]]
    /\ UNCHANGED <<now, users, refresh_tokens, next_id, otps, next_otp, tasks, issued,
                   logged_out, revoked, stories, videos, shots, dependents,
                   metrics_collector>>

\* get_user_stats: the stats of the user whose id the path spells; any
\* credentials will do (get_optional_user).
get_user_stats(credentials, user_id) ==
    /\ AllIdle
    /\ HTTPBearer(credentials) = 200
    /\ IF {u \in users : u.id = ObjectId(user_id)} = {}
       THEN /\ resp' = [op |-> "get_user_stats", status |-> 404,
                        uid |-> ObjectId(user_id), points |-> 0]
            /\ points' = points
       ELSE /\ update_user_points(user_id)
            /\ resp' = [op |-> "get_user_stats", status |-> 200,
                        uid |-> ObjectId(user_id), points |-> points'[ObjectId(user_id)]]
    /\ UNCHANGED <<now, users, refresh_tokens, next_id, otps, next_otp, tasks, issued,
                   logged_out, revoked, stories, videos, shots, dependents,
                   metrics_collector>>

\* ----------------------------------------------------------- src/metrics.py
\* datetime.utcnow().date()
date(t) == t \div DayTicks

NoCall == [pc |-> "idle", user_id |-> None, today |-> 0]

\* MetricsCollector.__init__, at time 0.  request_counts is the number of
\* requests counted, active_users_by_day the pairs of a date and a user, call
\* the record_request call the event loop is running.
MetricsCollector ==
    [lock |-> FALSE, request_counts |-> 0, active_users_today |-> {},
     active_users_by_day |-> {}, last_reset_date |-> date(0), call |-> NoCall]

\* The middleware calls record_request after the response, on the event
\* loop: one call at a time.  today is read first.
record_request(user_id) ==
    /\ metrics_collector.call = NoCall
    /\ metrics_collector.request_counts < MaxRequests
    /\ metrics_collector' =
          [metrics_collector EXCEPT !.call = [pc |-> "check", user_id |-> user_id,
                                              today |-> date(now)]]
    /\ UNCHANGED <<now, users, refresh_tokens, next_id, otps, next_otp, tasks, issued,
                   resp, logged_out, revoked, content>>

\* if today != self.last_reset_date: the comparison, the lock not held.
record_request_check ==
    /\ metrics_collector.call.pc = "check"
    /\ metrics_collector' =
          [metrics_collector EXCEPT !.call.pc =
              IF metrics_collector.call.today # metrics_collector.last_reset_date
              THEN "reset" ELSE "update"]
    /\ UNCHANGED <<now, users, refresh_tokens, next_id, otps, next_otp, tasks, issued,
                   resp, logged_out, revoked, content>>

\* with self._lock: the lock is taken when it is free.
record_request_acquire ==
    /\ metrics_collector.call.pc \in {"reset", "update"}
    /\ ~metrics_collector.lock
    /\ metrics_collector' =
          [metrics_collector EXCEPT !.lock = TRUE,
                                    !.call.pc = IF @ = "reset" THEN "reset_locked"
                                                ELSE "update_locked"]
    /\ UNCHANGED <<now, users, refresh_tokens, next_id, otps, next_otp, tasks, issued,
                   resp, logged_out, revoked, content>>

\* active_users_today.clear(); last_reset_date = today; the lock is released.
record_request_reset ==
    /\ metrics_collector.call.pc = "reset_locked"
    /\ metrics_collector' =
          [metrics_collector EXCEPT !.active_users_today = {},
                                    !.last_reset_date = metrics_collector.call.today,
                                    !.lock = FALSE,
                                    !.call.pc = "update"]
    /\ UNCHANGED <<now, users, refresh_tokens, next_id, otps, next_otp, tasks, issued,
                   resp, logged_out, revoked, content>>

\* The counters, and for a request with a user_id active_users_today and
\* active_users_by_day under datetime.utcnow().date(); the lock is released
\* and the call returns.
record_request_update ==
    /\ metrics_collector.call.pc = "update_locked"
    /\ LET user_id == metrics_collector.call.user_id
       IN  metrics_collector' =
             [metrics_collector EXCEPT
                 !.request_counts = @ + 1,
                 !.active_users_today = IF user_id # None THEN @ \cup {user_id} ELSE @,
                 !.active_users_by_day = IF user_id # None
                                         THEN @ \cup {<<date(now), user_id>>} ELSE @,
                 !.lock = FALSE,
                 !.call = NoCall]
    /\ UNCHANGED <<now, users, refresh_tokens, next_id, otps, next_otp, tasks, issued,
                   resp, logged_out, revoked, content>>

\* ------------------------------------------------------------ specification
\* A user who registered with a username.
User_u1 ==
    [id |-> 1, username |-> "u1", email |-> None,
     hashed_password |-> get_password_hash("pw"),
     anonymous_name |-> "HappyPanda1", role |-> "user", is_active |-> TRUE]
\* The session lifecycle of one registered user against the clock, with
\* requests in flight together.
Init ==
    /\ now = 0
    /\ users = {User_u1}
    /\ refresh_tokens = {}
    /\ next_id = 0
    /\ otps = {}
    /\ next_otp = 0
    /\ tasks = EmptyBag
    /\ issued = {}
    /\ resp = NoResp
    /\ logged_out = {}
    /\ revoked = {}
    /\ stories = {}
    /\ videos = {}
    /\ shots = {}
    /\ points = [uid \in 1..MaxUsers |-> 0]
    /\ chapters = {}
    /\ comments = {}
    /\ metrics_collector = MetricsCollector

Next ==
    \/ Tick
    \/ \E password \in Passwords : login("u1", None, password)
    \/ \E h \in Running : login_delete(h)
    \/ \E h \in Running : login_insert(h)
    \/ \E token \in Presentable : refresh_token(token)
    \/ \E h \in Running : refresh_reject(h)
    \/ \E h \in Running : refresh_update(h)
    \/ \E token \in Presentable : logout(token)
    \/ \E h \in Running : logout_delete(h)
    \/ \E token \in Presentable : story_activity(token)

Spec == Init /\ [][Next]_vars

\* Concurrent registrations on a database that starts empty; the clock stands
\* still.
InitRegister ==
    /\ now = 0
    /\ users = {}
    /\ refresh_tokens = {}
    /\ next_id = 0
    /\ otps = {}
    /\ next_otp = 0
    /\ tasks = EmptyBag
    /\ issued = {}
    /\ resp = NoResp
    /\ logged_out = {}
    /\ revoked = {}
    /\ stories = {}
    /\ videos = {}
    /\ shots = {}
    /\ points = [uid \in 1..MaxUsers |-> 0]
    /\ chapters = {}
    /\ comments = {}
    /\ metrics_collector = MetricsCollector

NextRegister ==
    \/ \E username \in Usernames \cup {None}, email \in Emails \cup {None},
          password \in Passwords, anonymous_name \in AnonymousNames \cup {None} :
          register(username, email, password, anonymous_name)
    \/ \E h \in Running : register_email(h)
    \/ \E h \in Running : register_anon(h)
    \/ \E h \in Running : register_insert(h)

SpecRegister == InitRegister /\ [][NextRegister]_vars

\* Every operation that creates or renames a user, one request at a time, on a
\* database that starts empty; the clock stands still, so no OTP expires.
NextAccounts ==
    \/ AllIdle /\ \E username \in Usernames \cup {None}, email \in Emails \cup {None},
                     anonymous_name \in AnonymousNames \cup {None} :
                     register(username, email, "pw", anonymous_name)
    \/ \E h \in Running : register_email(h)
    \/ \E h \in Running : register_anon(h)
    \/ \E h \in Running : register_insert(h)
    \/ AllIdle /\ \E username \in Usernames \cup {None}, email \in Emails \cup {None},
                     password \in Passwords : login(username, email, password)
    \/ \E h \in Running : login_admin_insert(h)
    \/ \E h \in Running : login_delete(h)
    \/ \E h \in Running : login_insert(h)
    \/ AllIdle /\ \E token \in Presentable, anonymous_name \in AnonymousNames \cup {None},
                     email \in Emails \cup {None} :
                     update_profile(token, anonymous_name, email)
    \/ \E h \in Running : update_profile_anon(h)
    \/ \E h \in Running : update_profile_email(h)
    \/ \E h \in Running : update_profile_update(h)
    \/ AllIdle /\ \E email \in Emails, code \in Codes : send_otp(email, code)
    \/ \E h \in Running : send_otp_insert(h)
    \/ AllIdle /\ \E email \in Emails, code \in Codes : verify_otp(email, code)
    \/ \E h \in Running : verify_otp_mark(h)
    \/ \E h \in Running : verify_otp_find(h)
    \/ \E h \in Running : verify_otp_anon(h)
    \/ \E h \in Running : verify_otp_create(h)
    \/ \E h \in Running : verify_otp_fetch(h)
    \/ \E h \in Running : verify_otp_delete(h)
    \/ \E h \in Running : verify_otp_insert(h)

SpecAccounts == InitRegister /\ [][NextAccounts]_vars

\* One-time passwords against the clock, one request at a time.
NextOtp ==
    \/ Tick
    \/ AllIdle /\ \E email \in Emails, code \in Codes : send_otp(email, code)
    \/ \E h \in Running : send_otp_insert(h)
    \/ AllIdle /\ \E email \in Emails, code \in Codes : verify_otp(email, code)
    \/ \E h \in Running : verify_otp_expired(h)
    \/ \E h \in Running : verify_otp_mark(h)
    \/ \E h \in Running : verify_otp_find(h)
    \/ \E h \in Running : verify_otp_anon(h)
    \/ \E h \in Running : verify_otp_create(h)
    \/ \E h \in Running : verify_otp_fetch(h)
    \/ \E h \in Running : verify_otp_delete(h)
    \/ \E h \in Running : verify_otp_insert(h)

SpecOtp == InitRegister /\ [][NextOtp]_vars

\* One-time passwords with requests in flight together; the clock stands
\* still, so no OTP expires.
NextOtpRace ==
    \/ \E email \in Emails, code \in Codes : send_otp(email, code)
    \/ \E h \in Running : send_otp_insert(h)
    \/ \E email \in Emails, code \in Codes : verify_otp(email, code)
    \/ \E h \in Running : verify_otp_mark(h)
    \/ \E h \in Running : verify_otp_find(h)
    \/ \E h \in Running : verify_otp_anon(h)
    \/ \E h \in Running : verify_otp_create(h)
    \/ \E h \in Running : verify_otp_fetch(h)
    \/ \E h \in Running : verify_otp_delete(h)
    \/ \E h \in Running : verify_otp_insert(h)

SpecOtpRace == InitRegister /\ [][NextOtpRace]_vars

\* The content routes, one request at a time, for a registered user and the
\* administrator; the clock stands still.
InitContent ==
    /\ now = 0
    /\ users = {User_u1}
    /\ refresh_tokens = {}
    /\ next_id = 0
    /\ otps = {}
    /\ next_otp = 0
    /\ tasks = EmptyBag
    /\ issued = {}
    /\ resp = NoResp
    /\ logged_out = {}
    /\ revoked = {}
    /\ stories = {}
    /\ videos = {}
    /\ shots = {}
    /\ points = [uid \in 1..MaxUsers |-> 0]
    /\ chapters = {}
    /\ comments = {}
    /\ metrics_collector = MetricsCollector

NextContent ==
    \/ AllIdle /\ \E username \in Usernames, password \in Passwords :
                     login(username, None, password)
    \/ \E h \in Running : login_admin_insert(h)
    \/ \E h \in Running : login_delete(h)
    \/ \E h \in Running : login_insert(h)
    \/ \E credentials \in Credentials : create_story(credentials)
    \/ \E credentials \in Credentials : create_video(credentials)
    \/ \E credentials \in Credentials : create_shot(credentials)
    \/ \E credentials \in Credentials, story_id \in 1..MaxContent :
          get_story(credentials, story_id)
    \/ \E credentials \in Credentials, video_id \in 1..MaxContent :
          get_video(credentials, video_id)
    \/ \E credentials \in Credentials, shot_id \in 1..MaxContent :
          get_shot(credentials, shot_id)
    \/ \E credentials \in Credentials : get_all_stories(credentials)
    \/ \E credentials \in Credentials : get_feed(credentials)
    \/ \E credentials \in Credentials, author_id \in 1..MaxUsers :
          get_author_stories(credentials, author_id)
    \/ \E credentials \in Credentials : get_videos(credentials)
    \/ \E credentials \in Credentials, status_filter \in StoryStatus \cup {None} :
          get_shots(credentials, status_filter)
    \/ \E credentials \in Credentials, story_id \in 1..MaxContent :
          submit_story(credentials, story_id)
    \/ \E credentials \in Credentials, shot_id \in 1..MaxContent,
          approved \in BOOLEAN, rejection_reason \in {None, "reason"} :
          approve_or_reject_shot(credentials, shot_id, approved, rejection_reason)

SpecContent == InitContent /\ [][NextContent]_vars

\* Updates and deletes of stories, videos, shots, chapters and comments, one
\* request at a time, by two registered users and the administrator.  A
\* second comment is a reply to the first.
User_u2 ==
    [id |-> 2, username |-> "u2", email |-> None,
     hashed_password |-> get_password_hash("pw"),
     anonymous_name |-> "HappyPanda2", role |-> "user", is_active |-> TRUE]

User_admin ==
    [id |-> 3, username |-> admin_username, email |-> None,
     hashed_password |-> get_password_hash(admin_password),
     anonymous_name |-> "Admin", role |-> "admin", is_active |-> TRUE]

\* The state after u1, u2 and the administrator have logged in, each holding
\* the tokens of its session, and u1 has created a story and a video.
InitOwnership ==
    /\ now = 0
    /\ users = {User_u1, User_u2, User_admin}
    /\ refresh_tokens =
          {[id |-> u.id, username |-> u.username,
            token |-> jwt_encode(u.username, u.role, RefreshTicks, "refresh"),
            last_activity |-> 0, expires_at |-> RefreshTicks] :
             u \in {User_u1, User_u2, User_admin}}
    /\ next_id = 3
    /\ otps = {}
    /\ next_otp = 0
    /\ tasks = EmptyBag
    /\ issued = {jwt_encode(u.username, u.role, AccessTicks, "access") :
                    u \in {User_u1, User_u2, User_admin}}
    /\ resp = NoResp
    /\ logged_out = {}
    /\ revoked = {}
    /\ stories = insert_one({}, story_doc(User_u1))
    /\ videos = insert_one({}, video_doc(User_u1))
    /\ shots = {}
    /\ points = [uid \in 1..(MaxUsers + 1) |-> IF uid = User_u1.id THEN 2 ELSE 0]
    /\ chapters = {}
    /\ comments = {}
    /\ metrics_collector = MetricsCollector

NextOwnership ==
    \/ \E credentials \in Presentable, story_id \in 1..MaxOwned :
          create_chapter(credentials, story_id, 1)
    \/ /\ comments = {}
       /\ \E credentials \in Presentable, story_id \in 1..MaxOwned,
             chapter_id \in {NoId} \cup 1..MaxChapters :
             create_comment(credentials, story_id, chapter_id, NoId)
    \/ /\ Cardinality(comments) < MaxComments
       /\ \E credentials \in Presentable, story_id \in 1..MaxOwned,
             parent_comment_id \in 1..MaxComments :
             create_comment(credentials, story_id, NoId, parent_comment_id)
    \/ /\ comments = {}
       /\ \E credentials \in Presentable, video_id \in 1..MaxOwned :
             create_video_comment(credentials, video_id)
    \/ \E credentials \in Presentable, story_id \in 1..MaxOwned :
          update_story(credentials, story_id, "t2")
    \/ \E credentials \in Presentable, story_id \in 1..MaxOwned :
          delete_story(credentials, story_id)
    \/ \E credentials \in Presentable, video_id \in 1..MaxOwned :
          update_video(credentials, video_id, "t2")
    \/ \E credentials \in Presentable, video_id \in 1..MaxOwned :
          delete_video(credentials, video_id)
    \/ \E credentials \in Presentable, shot_id \in 1..MaxOwned :
          update_shot(credentials, shot_id)
    \/ \E credentials \in Presentable, shot_id \in 1..MaxOwned :
          delete_shot(credentials, shot_id)
    \/ \E credentials \in Presentable, chapter_id \in 1..MaxChapters :
          update_chapter(credentials, chapter_id, "t2")
    \/ \E credentials \in Presentable, chapter_id \in 1..MaxChapters :
          delete_chapter(credentials, chapter_id)
    \/ \E credentials \in Presentable, comment_id \in 1..MaxComments :
          update_comment(credentials, comment_id, "t2")
    \/ \E credentials \in Presentable, comment_id \in 1..MaxComments :
          delete_comment(credentials, comment_id)

SpecOwnership == InitOwnership /\ [][NextOwnership]_vars


\* The state after u1 has created a story and a video and nobody has liked
\* them; likes are then toggled by the three users.
InitLikes == InitOwnership

\* Like toggles one request at a time.
NextToggle ==
    \/ /\ AllIdle
       /\ \A uid \in DOMAIN points : points[uid] < MaxPoints
       /\ \E credentials \in Presentable, story_id \in 1..MaxOwned :
             toggle_story_like(credentials, story_id)
    \/ \E h \in Running : toggle_story_like_update(h)
    \/ \E h \in Running : toggle_story_like_award(h)
    \/ \E credentials \in Presentable, video_id \in 1..MaxOwned :
          toggle_like_video(credentials, video_id)

SpecToggle == InitLikes /\ [][NextToggle]_vars

\* Like toggles in flight together, two of one user among them.
NextLikes ==
    \/ /\ \A uid \in DOMAIN points : points[uid] < MaxPoints
       /\ \A story \in stories : story.likes \in 0..MaxLikes
       /\ \E credentials \in Presentable, story_id \in 1..MaxOwned :
             toggle_story_like(credentials, story_id)
    \/ \E h \in Running : toggle_story_like_update(h)
    \/ \E h \in Running : toggle_story_like_award(h)

SpecLikes == InitLikes /\ [][NextLikes]_vars

\* Likes only, in flight together: a request is taken from a user who has not
\* liked the story and has no request in flight.
NextLikeRace ==
    \/ \E credentials \in Presentable, story_id \in 1..MaxOwned :
          /\ \A story \in stories, u \in get_current_user(credentials) :
                u.id \notin story.liked_by
          /\ \A h \in Running : h.user.username # credentials.sub
          /\ toggle_story_like(credentials, story_id)
    \/ \E h \in Running : toggle_story_like_update(h)
    \/ \E h \in Running : toggle_story_like_award(h)

SpecLikeRace == InitLikes /\ [][NextLikeRace]_vars


\* A thread of comments on u1's story: comments, replies to them whose
\* parent_comment_id is spelled in either case, and deletes, one request at a
\* time.
NextComments ==
    \/ /\ Cardinality(comments) < MaxThread
       /\ \E credentials \in Presentable, story_id \in 1..MaxOwned :
             create_comment(credentials, story_id, NoId, NoId)
    \/ /\ Cardinality(comments) < MaxThread
       /\ \E credentials \in Presentable, story_id \in 1..MaxOwned,
             parent \in 1..MaxThread :
             \E parent_comment_id \in {str(parent), Upper(parent)} :
                create_comment(credentials, story_id, NoId, parent_comment_id)
    \/ \E credentials \in Presentable, comment \in 1..MaxThread :
          \E comment_id \in {str(comment), Upper(comment)} :
             delete_comment(credentials, comment_id)

SpecComments == InitOwnership /\ [][NextComments]_vars

\* Chapters of u1's story created and renumbered by requests in flight
\* together.
NextChapters ==
    \/ /\ Cardinality(chapters) < MaxNumbers
       /\ \E credentials \in Presentable, story_id \in 1..MaxOwned,
             chapter_number \in 1..MaxNumbers :
             create_chapter_find_one(credentials, story_id, chapter_number)
    \/ \E h \in Running : create_chapter_insert_one(h)
    \/ \E credentials \in Presentable, chapter_id \in 1..MaxNumbers,
          chapter_number \in 1..MaxNumbers :
          update_chapter_find_one(credentials, chapter_id, chapter_number)
    \/ \E h \in Running : update_chapter_update_one(h)

SpecChapters == InitOwnership /\ [][NextChapters]_vars

\* The state after u1 and u2 have logged in, each holding the tokens of its
\* session; nothing has been created.
InitPoints ==
    /\ now = 0
    /\ users = {User_u1, User_u2}
    /\ refresh_tokens =
          {[id |-> u.id, username |-> u.username,
            token |-> jwt_encode(u.username, u.role, RefreshTicks, "refresh"),
            last_activity |-> 0, expires_at |-> RefreshTicks] :
             u \in {User_u1, User_u2}}
    /\ next_id = 2
    /\ otps = {}
    /\ next_otp = 0
    /\ tasks = EmptyBag
    /\ issued = {jwt_encode(u.username, u.role, AccessTicks, "access") :
                    u \in {User_u1, User_u2}}
    /\ resp = NoResp
    /\ logged_out = {}
    /\ revoked = {}
    /\ stories = {}
    /\ videos = {}
    /\ shots = {}
    /\ points = [uid \in 1..MaxUsers |-> 0]
    /\ chapters = {}
    /\ comments = {}
    /\ metrics_collector = MetricsCollector

\* Stories and videos created, liked and deleted and the points recomputed,
\* one request at a time; one story and one video at a time.
NextPoints ==
    \/ /\ stories = {}
       /\ \A uid \in DOMAIN points : points[uid] < MaxPoints
       /\ \E credentials \in Presentable : create_story(credentials)
    \/ /\ videos = {}
       /\ \A uid \in DOMAIN points : points[uid] < MaxPoints
       /\ \E credentials \in Presentable : create_video(credentials)
    \/ \E credentials \in Presentable, story_id \in 1..MaxOwned :
          delete_story(credentials, story_id)
    \/ /\ AllIdle
       /\ \A uid \in DOMAIN points : points[uid] < MaxPoints
       /\ \E credentials \in Presentable, story_id \in 1..MaxOwned :
             toggle_story_like(credentials, story_id)
    \/ \E h \in Running : toggle_story_like_update(h)
    \/ \E h \in Running : toggle_story_like_award(h)
    \/ \E credentials \in Presentable : get_my_stats(credentials)
    \/ \E credentials \in Presentable, user \in 1..MaxUsers :
          \E user_id \in {str(user), Upper(user)} :
             get_user_stats(credentials, user_id)

SpecPoints == InitPoints /\ [][NextPoints]_vars

\* Requests recorded by the metrics collector while the days pass.
NextMetrics ==
    \/ Tick
    \/ \E user_id \in Usernames \cup {None} : record_request(user_id)
    \/ record_request_check
    \/ record_request_acquire
    \/ record_request_reset
    \/ record_request_update

SpecMetrics == InitPoints /\ [][NextMetrics]_vars

\* Registrations and logins, one request at a time, where the username asked
\* for may be a string that is also an e-mail address (username is any str).
NextIdentifier ==
    \/ AllIdle /\ \E username \in Emails \cup {None}, email \in Emails \cup {None} :
                     register(username, email, "pw", None)
    \/ \E h \in Running : register_email(h)
    \/ \E h \in Running : register_anon(h)
    \/ \E h \in Running : register_insert(h)
    \/ AllIdle /\ \E username \in Emails \cup {None}, email \in Emails \cup {None} :
                     login(username, email, "pw")
    \/ \E h \in Running : login_delete(h)
    \/ \E h \in Running : login_insert(h)

SpecIdentifier == InitRegister /\ [][NextIdentifier]_vars

\* ------------------------------------------------------------------- claims
\* The outcome of a whole refresh request served alone in the current state.
refresh_status(token) ==
    IF verify_token(token, "refresh") # 200 THEN 401
    ELSE IF refresh_token_docs(token) = {} THEN 401
    ELSE IF \E d \in refresh_token_docs(token) : refresh_check(token, d) # "ok" THEN 401
    ELSE IF \E r \in refresh_tokens :
               r.token = create_refresh_token(token.sub, token.role) /\ r.token # token
    THEN 500
    ELSE 200

\* A login or a refresh answered 200 and nothing has written since.
Answered(op) == resp.op = op /\ resp.status = 200 /\ AllIdle

\* C1: a login followed by a refresh of the token it returned succeeds within
\* the timeouts, the refresh returns a refresh token that differs from the one
\* presented, and the presented token is refused from then on.
C1_RefreshRotates ==
    /\ Answered("login") /\ now - (resp.refresh_token.exp - RefreshTicks) <= InactivityTicks
          => refresh_status(resp.refresh_token) = 200
    /\ Answered("refresh")
          => /\ resp.refresh_token # resp.presented
             /\ refresh_status(resp.presented) = 401

\* A stored session of the subject that is neither expired nor inactive.
LiveSession(sub) ==
    \E r \in refresh_tokens :
        /\ r.username = sub
        /\ r.expires_at > now
        /\ now - r.last_activity <= InactivityTicks

\* C2: get_current_user accepts an access token only if the subject has a
\* stored refresh-token document that is not expired and was active within
\* the inactivity window; without one the token is refused with 401.
C2_AccessNeedsLiveSession ==
    \A token \in Presentable :
        ~LiveSession(token.sub) => get_current_user_status(token) = 401

\* C2 witness: a client holds an access token that still decodes, and the
\* subject has no live session left.
C2_Witness ==
    \E token \in issued :
        /\ verify_token(token, "access") = 200
        /\ ~LiveSession(token.sub)
        /\ UsersWhere("username", token.sub) # {}

\* The refresh tokens a client may still hold: those not yet expired, and
\* those the stored documents carry, expired or not.
Held == Presentable \cup {r.token : r \in refresh_tokens}

\* C3: refresh goes through only for a stored document that is both within the
\* inactivity window and not past its expiry; each timeout alone refuses it.
C3_TwoTimeouts ==
    \A token \in Held :
        /\ refresh_status(token) = 200 =>
              \E r \in refresh_token_docs(token) :
                  /\ now - r.last_activity <= InactivityTicks
                  /\ now <= r.expires_at
        /\ \A r \in refresh_token_docs(token) :
              /\ now - r.last_activity > InactivityTicks => refresh_status(token) = 401
              /\ now > r.expires_at => refresh_status(token) = 401

\* C3 witness: a refresh is being refused for inactivity although the stored
\* document has not reached its expiry and the token still decodes.
C3_Witness ==
    \E h \in Running :
        /\ h.pc = "refresh_reject"
        /\ h.detail = "Session expired due to inactivity"
        /\ \E r \in refresh_tokens : r.id = h.id /\ now <= r.expires_at

\* C4: once a logout has completed and until the subject logs in again, no
\* refresh-token document of the subject is stored, and every refresh and
\* every get_current_user for the subject is refused with 401.
C4_LoggedOut ==
    \A sub \in logged_out :
        /\ ~\E r \in refresh_tokens : r.username = sub
        /\ \A token \in Presentable :
              token.sub = sub =>
                 /\ refresh_status(token) = 401
                 /\ get_current_user_status(token) = 401

\* C4 witness: after a logout the client still holds tokens of the subject
\* that decode, an access token and a refresh token.
C4_Witness ==
    \E sub \in logged_out :
        /\ \E token \in issued : token.sub = sub /\ verify_token(token, "access") = 200
        /\ \E token \in issued : token.sub = sub /\ verify_token(token, "refresh") = 200

\* C27: once a logout of a subject has completed, get_current_user rejects
\* every access token issued to that subject before the logout, at all later
\* times, also after the subject has logged in again.
C27_RevokedStaysRejected ==
    \A token \in revoked :
        token.type = "access" => get_current_user_status(token) # 200

\* Until the subject logs in again the tokens issued before its logout are
\* rejected.
RevokedRejectedWhileLoggedOut ==
    \A token \in revoked :
        token.type = "access" /\ token.sub \in logged_out
            => get_current_user_status(token) # 200

\* A logout has completed and the client holds an access token from before it
\* that still decodes.
RevokedHeld ==
    \E token \in revoked :
        token.type = "access" /\ verify_token(token, "access") = 200

\* C29: an OTP document yields at most one successful verification: after a
\* verify_otp answered 200 for an OTP, no verify_otp for the same OTP, whether
\* it was sent later or was in flight together with the first, answers 200.
C29_OtpVerifiedOnce ==
    [][\A h \in Running :
          /\ resp.op = "verify_otp" /\ resp.status = 200
          /\ verify_otp_insert(h) /\ resp'.status = 200
          => h.id # resp.otp]_vars

\* C30: when a login with the configured admin credentials has answered 200,
\* the access token of the response passes get_current_admin_user, whichever
\* users were registered before that login.
C30_AdminLoginPassesGate ==
    AllIdle /\ resp.op = "login" /\ resp.status = 200
            /\ resp.access_token.role = "admin"
        => get_current_admin_user_status(resp.access_token) = 200

\* The role of an issued admin token is the stored role of every user record
\* its subject resolves to.
AdminTokenAgreesWithRecord ==
    \A token \in issued :
        token.role = "admin" =>
            \A u \in UsersWhere("username", token.sub) : u.role = "admin"

\* With no user registered under the admin username before the first admin
\* login, the admin token passes the gate.
AdminLoginPassesGateUnlessTaken ==
    AllIdle /\ resp.op = "login" /\ resp.status = 200
            /\ resp.access_token.role = "admin"
            /\ (\A u \in UsersWhere("username", admin_username) : u.role = "admin")
        => get_current_admin_user_status(resp.access_token) = 200

\* C5: refresh_tokens holds at most one document per username.
C5_OneSessionPerUser ==
    \A r1, r2 \in refresh_tokens : r1.username = r2.username => r1 = r2

\* C8: after a login answered 200, get_current_user accepts the access token
\* of the response (while it has not expired) and returns the user whose
\* credentials were verified.
C8_LoginThenMe ==
    Answered("login") /\ verify_token(resp.access_token, "access") = 200
        => get_current_user(resp.access_token) = {u \in users : u.id = resp.uid}

\* C9: no dependency takes a refresh token as an access credential, refresh
\* takes no access token, and a token that does not decode is refused by all.
C9_TokenTypes ==
    \A token \in Presentable :
        /\ token.type = "refresh" =>
              get_current_user(token) = {} /\ get_optional_user(token) = {}
        /\ token.type = "access" => refresh_status(token) # 200
        /\ ~jwt_decode_ok(token) =>
              /\ get_current_user(token) = {}
              /\ get_optional_user(token) = {}
              /\ refresh_status(token) # 200

\* A stored user holds the username or the e-mail address a register call
\* carried.
Registered(username, email) ==
    \E u \in users : \/ username # None /\ u.username = username
                     \/ email # None /\ u.email = email

\* C6: no two user documents share a username or an e-mail address, and a
\* register call that did not create its user although its username or
\* e-mail address is registered was answered 400.
C6_DuplicateRegister ==
    /\ \A u1, u2 \in users :
          u1 # u2 => /\ u1.username = None \/ u1.username # u2.username
                     /\ u1.email = None \/ u1.email # u2.email
    /\ resp.op = "register" /\ resp.status # 201 /\ Registered(resp.username, resp.email)
          => resp.status = 400

\* C7: no two user documents have the same anonymous_name.
C7_UniqueAnonymousName ==
    \A u1, u2 \in users : u1.anonymous_name = u2.anonymous_name => u1 = u2

\* The user a request is made by: the one its token was issued to.
Caller(credentials) ==
    IF credentials \in issued THEN UsersWhere("username", credentials.sub) ELSE {}

\* The visibility rule: approved, or the caller is the author or an admin.
Visible(item, credentials) ==
    \/ item.status = "approved"
    \/ \E u \in Caller(credentials) : u.id = item.author_id \/ u.role = "admin"

\* C10: a single-item read of a story, a video or a shot returns the item
\* exactly when it is approved or the caller is its author or an admin,
\* whether or not the caller is authenticated.
C10_SingleItemVisibility ==
    \A credentials \in Credentials :
        /\ \A story \in stories :
              get_story_status(credentials, story.id) = 200 <=> Visible(story, credentials)
        /\ \A video \in videos :
              get_video_status(credentials, video.id) = 200 <=> Visible(video, credentials)
        /\ \A shot \in shots :
              get_shot_status(credentials, shot.id) = 200 <=> Visible(shot, credentials)

\* C11: every item a public listing returns (stories list, stories feed,
\* stories by author, videos feed, shots list for any status_filter) has
\* status approved.
Listings == {"get_all_stories", "get_feed", "get_author_stories", "get_videos",
             "get_shots"}
C12_CreatedAsDraft ==
    resp.op = "create_story" /\ resp.status = 201 =>
        /\ resp.story_status = "draft"
        /\ \A story \in stories : story.id = resp.id => story.status = "draft"

\* C13: a submit by its author on a story that is draft or rejected succeeds
\* and leaves it pending with no rejection reason; any other submit is refused.
\* A story is a draft from its creation until a submit moves it, so the
\* status create_story gave it stands for draft here.
Submittable(story) ==
    \/ story.status = "rejected"
    \/ \E author \in users : /\ author.id = story.author_id
                              /\ story.status = story_doc(author).status
C13_SubmitFromDraft ==
    resp.op = "submit_story" =>
        \A story \in stories :
            /\ story.id = resp.id
            /\ \E u \in Caller(resp.credentials) : u.id = story.author_id
            => \/ /\ resp.status = 200
                  /\ story.status = "pending"
                  /\ story.rejection_reason = None
               \/ /\ resp.status # 200
                  /\ ~Submittable(story)

\* No shot is ever stored: create_shot fails before its insert_one.
NoShotStored == shots = {}

\* No item is ever in a status other than approved.
AllApproved == \A item \in stories \cup videos : item.status = "approved"

\* The updates and deletes, and the author of the item a request addresses.
Updates == {"update_story", "update_video", "update_shot", "update_comment",
            "update_chapter"}
Deletes == {"delete_story", "delete_video", "delete_shot", "delete_comment",
            "delete_chapter"}
AuthorOf(op, id) ==
    IF op \in {"update_story", "delete_story"}
    THEN {story.author_id : story \in {x \in stories : x.id = id}}
    ELSE IF op \in {"update_video", "delete_video"}
    THEN {video.author_id : video \in {x \in videos : x.id = id}}
    ELSE IF op \in {"update_shot", "delete_shot"}
    THEN {shot.author_id : shot \in {x \in shots : x.id = id}}
    ELSE IF op \in {"update_comment", "delete_comment"}
    THEN {comment.user_id : comment \in {x \in comments : x.id = id}}
    ELSE {story.author_id :
            story \in {x \in stories :
                         \E ch \in chapters : ch.id = id /\ ch.story_id = x.id}}

\* C16: an update or a delete of a story, video, shot, comment or chapter
\* asked by an authenticated caller who is not its author (nor, for a delete,
\* an admin) is answered 403 and changes no item and no dependent record.
C16_NonAuthorRejected ==
    [][(/\ resp'.op \in Updates \cup Deletes
        /\ AuthorOf(resp'.op, resp'.id) # {}
        /\ resp'.uid \notin AuthorOf(resp'.op, resp'.id)
        /\ resp'.op \in Deletes => resp'.role # "admin")
       => /\ resp'.status = 403
          /\ UNCHANGED <<stories, videos, shots, dependents>>]_vars

\* A delete of a story with a chapter and a comment, refused.
C16_Witness ==
    /\ resp.op = "delete_story"
    /\ resp.status = 403
    /\ \E ch \in chapters : ch.story_id = resp.id
    /\ \E c \in comments : c.story_id = resp.id

\* C17: after a like toggle and after the unlike that follows it, the total
\* the response reports is the stored count and its liked flag tells whether
\* the caller is among the likers, the stored count being the number of
\* likers: the pair returns the count to its value and is_liked to false.
ToggledItems ==
    IF resp.op = "toggle_story_like" THEN {story \in stories : story.id = resp.id}
    ELSE {video \in videos : video.id = resp.id}
C17_LikeThenUnlike ==
    /\ AllIdle
    /\ resp.op \in {"toggle_story_like", "toggle_like_video"}
    /\ resp.status = 200
    => /\ "total_likes" \in DOMAIN resp
       /\ \A item \in ToggledItems :
             /\ item.likes = Cardinality(item.liked_by)
             /\ resp.total_likes = item.likes
             /\ resp.liked = (resp.uid \in item.liked_by)

\* The same for the story toggles alone.
StoryLikeThenUnlike ==
    AllIdle /\ resp.op = "toggle_story_like" /\ resp.status = 200 =>
        \A item \in ToggledItems :
            /\ item.likes = Cardinality(item.liked_by)
            /\ resp.total_likes = item.likes
            /\ resp.liked = (resp.uid \in item.liked_by)

\* C18: for every story and video the likes counter is the number of users
\* in liked_by, whatever the interleaving of the toggles.
C18_LikesMatchLikedBy ==
    \A item \in stories \cup videos : item.likes = Cardinality(item.liked_by)

\* The milestone points of a user: what it holds beyond the point of each
\* story and video it created (none is deleted here).
MilestonePoints(uid) ==
    points[uid] - Cardinality({item \in stories : item.author_id = uid})
                - Cardinality({item \in videos : item.author_id = uid})

\* C19: with the toggles served one at a time, the author holds one milestone
\* point once the count has reached the multiple, and no more however often
\* the count comes back to it (three likers keep the count below the second
\* multiple).
C19_OnePointPerMilestone ==
    AllIdle =>
        \A u \in users :
            /\ MilestonePoints(u.id) <=
                  Cardinality({story \in stories : story.author_id = u.id})
            /\ (\E story \in stories : /\ story.author_id = u.id
                                        /\ story.likes >= Milestone)
               => MilestonePoints(u.id) >= 1

\* C20: likes of different users in flight together award the milestone point
\* at most once for the one time the stored count passes the multiple (the
\* count only grows here, and stays below the second multiple).
C20_OneAwardPerCrossing ==
    \A u \in users :
        MilestonePoints(u.id) <= Cardinality({story \in stories : story.author_id = u.id})

\* The comments reachable from a set of comments through parent_comment_id:
\* a reply names its parent by any spelling of the parent's id.
RECURSIVE Subtree(_, _)
Subtree(ids, depth) ==
    IF depth = 0 THEN ids
    ELSE Subtree(ids \cup {c.id : c \in {x \in comments :
                                            /\ x.parent_comment_id # NoId
                                            /\ ObjectId(x.parent_comment_id) \in ids}},
                 depth - 1)

\* C21: a delete_comment that succeeds removes the comment and every comment
\* reachable from it through parent_comment_id, and leaves the others.
C21_SubtreeDeleted ==
    [][/\ resp'.op = "delete_comment"
       /\ resp'.status = 200
       /\ comments' # comments
       => comments' = {c \in comments :
                         c.id \notin Subtree({resp'.id}, Cardinality(comments))}]_vars

\* C22: no two chapters of a story have the same chapter_number, whatever the
\* interleaving of the create_chapter and update_chapter requests.
C22_UniqueChapterNumber ==
    \A a, b \in chapters :
        a.story_id = b.story_id /\ a.chapter_number = b.chapter_number => a.id = b.id

\* The recompute formula on a user's documents: ten points per referral, one
\* per approved story of the user, one per Milestone likes received.
PointsFormula(uid) ==
    LET user == CHOOSE u \in users : u.id = uid
    IN  referral_count(user) * 10
        + Cardinality({story \in stories : /\ story.author_id = uid
                                            /\ story.status = "approved"})
        + (total_likes({item \in stories : item.author_id = uid})
           + total_likes({item \in videos : item.author_id = uid})) \div Milestone

Recomputes == {"get_my_stats", "get_user_stats"}

\* C23: a recompute stores the formula's value on the current state for the
\* user and nothing else, and a second recompute right after the first stores
\* the same value.
C23_RecomputeOverwrites ==
    [][resp'.op \in Recomputes /\ resp'.status = 200
       => /\ points' = [points EXCEPT ![resp'.uid] = PointsFormula(resp'.uid)]
          /\ (resp.op \in Recomputes /\ resp.status = 200 /\ resp.uid = resp'.uid
              => points' = points)]_vars

\* The same for get_my_stats alone.
MyStatsOverwrites ==
    [][resp'.op = "get_my_stats" /\ resp'.status = 200
       => /\ points' = [points EXCEPT ![resp'.uid] = PointsFormula(resp'.uid)]
          /\ (resp.op = "get_my_stats" /\ resp.status = 200 /\ resp.uid = resp'.uid
              => points' = points)]_vars

\* A second recompute right after a first changes nothing.
RecomputeIdempotent ==
    [][/\ resp'.op \in Recomputes /\ resp'.status = 200
       /\ resp.op = resp'.op /\ resp.status = 200 /\ resp.uid = resp'.uid
       /\ resp.points = resp'.points
       => points' = points]_vars

\* C28: the stored points of every user are what the recompute formula
\* yields on the current state, whatever was created, liked or deleted.
C28_StoredPointsMatchFormula ==
    AllIdle => \A u \in users : points[u.id] = PointsFormula(u.id)

\* A step of record_request that reads last_reset_date or writes the
\* collector's state.
ReadsOrWrites ==
    \/ metrics_collector.call.pc = "check" /\ metrics_collector'.call.pc # "check"
    \/ metrics_collector'.request_counts # metrics_collector.request_counts
    \/ metrics_collector'.active_users_today # metrics_collector.active_users_today
    \/ metrics_collector'.active_users_by_day # metrics_collector.active_users_by_day
    \/ metrics_collector'.last_reset_date # metrics_collector.last_reset_date

\* The users recorded as active on a date.
ActiveOn(day) == {pair[2] : pair \in {x \in metrics_collector.active_users_by_day :
                                        x[1] = day}}

\* Once the collector has rolled over to the current date and no call is
\* running, active_users_today holds the users of the requests of that date.
ActiveTodayExact ==
    /\ metrics_collector.call = NoCall
    /\ metrics_collector.last_reset_date = date(now)
    => metrics_collector.active_users_today = ActiveOn(date(now))

\* C24: every step of record_request that reads last_reset_date or writes the
\* collector's state is taken with the lock held, and after a rollover
\* active_users_today holds the users of the requests of the current date.
C24_RolloverUnderLock ==
    [][/\ ReadsOrWrites => metrics_collector.lock
       /\ ActiveTodayExact']_vars

\* The writes alone are taken with the lock held.
WritesUnderLock ==
    [][metrics_collector'.request_counts # metrics_collector.request_counts
       \/ metrics_collector'.active_users_today # metrics_collector.active_users_today
       \/ metrics_collector'.last_reset_date # metrics_collector.last_reset_date
       => metrics_collector.lock]_vars

\* C25: once a refresh has succeeded on a token and replaced it by another,
\* the next refresh to complete does not succeed on the same token: of two
\* refresh requests in flight with one token at most one succeeds.
C25_RedeemedOnce ==
    [][\A h \in Running :
          /\ resp.op = "refresh" /\ resp.status = 200
          /\ resp.refresh_token # resp.presented
          /\ refresh_update(h) /\ resp'.status = 200
          => h.presented # resp.presented]_vars

\* C26: the subject of a user's tokens is the username of no other user, so
\* get_current_user resolves a token to the user it was issued for.
C26_IdentifierOneUser ==
    \A a, b \in users :
        a.id # b.id /\ a.username # None => a.username # identifier(b)

\* A stored session past its expiry although recently active.
ExpiredWhileActive ==
    \E r \in refresh_tokens : now > r.expires_at /\ now - r.last_activity <= InactivityTicks

====
